---------------------------- MODULE Spec2Model ----------------------------
(***************************************************************************)
(* Real-time streaming session engine of the interview application         *)
(* (App component, src/unnamed/part_000).                                  *)
(*                                                                         *)
(* All handlers run on one event loop.  An action of this module is one    *)
(* run of a handler from the event that resumes it to its next real        *)
(* suspension point (a timer, a device or network promise).  An await of   *)
(* an already settled value resumes in the same microtask checkpoint and   *)
(* is not a suspension point.                                              *)
(*                                                                         *)
(* Time is counted in quanta of half a second; the audio clock of an       *)
(* output context and buffer durations are integers in that unit.          *)
(* Text is modelled by TLA+ strings, concatenated with \o.                 *)
(***************************************************************************)
EXTENDS Integers, Sequences, FiniteSets, TLC

\* ------------------------------------------------------------------ bounds
MaxStarts == 2      \* startInterview calls in one behaviour
MaxMsgs   == 3      \* inbound channel messages in one behaviour
MaxDur    == 2      \* longest inbound audio buffer
MaxPending == 2     \* inbound chunks being decoded at once
MaxFaults == 1      \* failures of the environment in one behaviour
MaxClicks == 5      \* user clicks in one behaviour
TalkClicks == 4     \* user clicks in one behaviour with messages
MaxEnds   == 2      \* handleEndInterview calls in progress at once
MaxBlock  == 4      \* samples in one capture block
MaxUpdates == 2     \* setConfig calls of the form not rendered yet
MaxFrames == 2      \* captured frames handed to one session promise

Attempts == 1..MaxStarts

Ends == 1..MaxEnds

\* Instants at which the audio clock is read (10.0 s is 20 quanta).
Instants == {1, 2, 20}

\* ------------------------------------------------------------ program state
VARIABLES
  state,                  \* useState<InterviewState>                (l. 37)
  error,                  \* useState<string|null> error             (l. 52)
  showCountdown,          \* useState(false) showCountdown           (l. 59)
  feedback,               \* useState<FeedbackData|null>             (l. 51)
  tokenUsage,             \* useState(0) tokenUsage                  (l. 54)
  transcripts,            \* useState<ChatMessage[]> committed turns (l. 45)
  currentSessionId,       \* currentSessionIdRef, 0 stands for ""    (l. 78)
  now,                    \* last value Date.now() returned          (l. 265)
  nextStartTime,          \* nextStartTimeRef                        (l. 80)
  sources,                \* sourcesRef: Set<AudioBufferSourceNode>  (l. 81)
  currentInput,           \* currentInputRef  (mirrored by currentInputTrans)
  currentOutput,          \* currentOutputRef (mirrored by currentOutputTrans)
  fullTranscript,         \* fullTranscriptRef                       (l. 87)
  streamRef,              \* streamRef: attempt owning the stream, 0 = null
  processorRef,           \* processorRef, 0 = null
  activeSessionRef,       \* activeSessionRef, 0 = null
  audioContextRef,        \* audioContextRef, 0 = null
  outputAudioContextRef,  \* outputAudioContextRef, 0 = null
  mic,                    \* per attempt: its MediaStream track, "live" or "off"
  inCtx,                  \* per attempt: its input AudioContext, "running" or
                          \* "off" (not created yet, or closed)
  outCtx,                 \* per attempt: its output AudioContext, likewise
  outClock,               \* per attempt: currentTime of its output context
  chan,                   \* per attempt: its live channel: "off" (none, or gone),
                          \* "connecting", "failing" (errored before it opened),
                          \* "open", "closing" (its close event is on its way)
  tok,                    \* per attempt: newSessionId captured by its closures
  apiKey,                 \* process.env.API_KEY is set (fixed by the build)
  startPc,                \* per attempt: where its startInterview call stands
  stopPc,                 \* per attempt: where the stopAllMedia() it did not await stands
  endPc,                  \* per call: where that handleEndInterview call stands
  armed,                  \* per attempt: the value Date.now() last returned
                          \* when its cooldown timer was set          (l. 262)
  finalTranscript,        \* const finalTranscript of the last handleEndInterview
                          \* call that reached it                    (l. 648)
  jsonText,               \* per call: its const jsonText, "" until it is
                          \* assigned                                (l. 690)
  serial,                 \* sessions so far: tokens minted           (l. 265)
  endOf,                  \* per call: the session whose end it is
  analysed,               \* the session whose end set ANALYZING last (l. 646)
  reported,               \* the sessions a report was set for   (l. 668, 723)
  resetDuring,            \* the startInterview calls that were suspended when
                          \* handleHardReset was called (recorded under
                          \* ResetSpec)
  sampleRate,             \* inputCtx.sampleRate: the rate the device gives
                          \* every input context                (l. 306, 412)
  inputData,              \* const inputData of the last audio callback (l. 407)
  finalData,              \* the samples it handed to createPcmBlob (l. 425)
  enableGestures,         \* config.enableGestures of the form submitted (l. 295)
  videoStreamRef,         \* videoStreamRef: attempt owning the stream, 0 = null
  config,                 \* SetupForm: useState<InterviewConfig> as rendered
                          \*                          (SetupForm.tsx l. 16)
  updates,                \* SetupForm: setConfig calls not rendered yet
  storage,                \* localStorage item 'interview_flow_config_v1'
  mounted,                \* SetupForm: its mount effects have run
  cam,                    \* per attempt: its startGestureAnalysis call: "off"
                          \* (not made, or its tracks stopped), "asking"
                          \* (awaiting the camera), "live" (stream stored),
                          \* "playing" (detection loop running), "denied"
                          \* (failure logged)
  processor,              \* per attempt: its ScriptProcessorNode: "on" while
                          \* it is connected                  (l. 359-363)
  onaudioprocess,         \* per attempt: the attempt whose closure its
                          \* processor's onaudioprocess holds, 0 = none
  settled,                \* per attempt: the sessionPromiseWrapper that the
                          \* closure its processor holds captured is
                          \* settled                        (l. 379, 596)
  queued,                 \* per attempt: frames captured whose `.then` on
                          \* sessionPromiseWrapper has not run yet (l. 427)
  sent,                   \* per attempt: frames its channel was sent
  lapsed,                 \* the attempts whose token was current and then
                          \* was not
  resetPc,                \* where the handleHardReset call in progress stands
  decodes,                \* inbound chunks inside `await decodeAudioData`
  timeline,               \* source.start(t) calls since the cursor was last reset
  msgs,                   \* inbound messages delivered so far
  completions,            \* turn-complete / interrupted events delivered so far
  clicks,                 \* user clicks so far
  faults                  \* failures of the environment so far

vars == <<state, error, showCountdown, feedback, tokenUsage, transcripts,
          currentSessionId, now, nextStartTime, sources, currentInput,
          currentOutput, fullTranscript, streamRef, processorRef,
          activeSessionRef, audioContextRef, outputAudioContextRef, mic, inCtx,
          outCtx, outClock, chan, tok, apiKey, startPc, stopPc, endPc, resetPc,
          decodes, timeline, armed, finalTranscript, jsonText, serial, endOf,
          analysed, reported, resetDuring, sampleRate, inputData, finalData,
          enableGestures, videoStreamRef, cam, config, updates, storage,
          mounted, processor, onaudioprocess, settled, queued, sent, lapsed,
          msgs, completions, clicks, faults>>

tasks == <<apiKey, startPc, stopPc, endPc, resetPc>>

\* The mutable state handlers read and write, as one record, so that the
\* statements of a handler compose as functions.
World ==
  [state |-> state, error |-> error, showCountdown |-> showCountdown,
   feedback |-> feedback, tokenUsage |-> tokenUsage, transcripts |-> transcripts,
   currentSessionId |-> currentSessionId, now |-> now,
   nextStartTime |-> nextStartTime, sources |-> sources,
   currentInput |-> currentInput, currentOutput |-> currentOutput,
   fullTranscript |-> fullTranscript, streamRef |-> streamRef,
   processorRef |-> processorRef, activeSessionRef |-> activeSessionRef,
   audioContextRef |-> audioContextRef,
   outputAudioContextRef |-> outputAudioContextRef, mic |-> mic, inCtx |-> inCtx,
   outCtx |-> outCtx, outClock |-> outClock, chan |-> chan,
   decodes |-> decodes, timeline |-> timeline,
   armed |-> armed, finalTranscript |-> finalTranscript, jsonText |-> jsonText,
   serial |-> serial, endOf |-> endOf, analysed |-> analysed,
   reported |-> reported, resetDuring |-> resetDuring,
   sampleRate |-> sampleRate, inputData |-> inputData,
   finalData |-> finalData, enableGestures |-> enableGestures,
   videoStreamRef |-> videoStreamRef, cam |-> cam, config |-> config,
   updates |-> updates, storage |-> storage, mounted |-> mounted,
   processor |-> processor, onaudioprocess |-> onaudioprocess,
   settled |-> settled, queued |-> queued, sent |-> sent, lapsed |-> lapsed]

Commit(w) ==
  /\ state' = w.state
  /\ error' = w.error
  /\ showCountdown' = w.showCountdown
  /\ feedback' = w.feedback
  /\ tokenUsage' = w.tokenUsage
  /\ transcripts' = w.transcripts
  /\ currentSessionId' = w.currentSessionId
  /\ now' = w.now
  /\ nextStartTime' = w.nextStartTime
  /\ sources' = w.sources
  /\ currentInput' = w.currentInput
  /\ currentOutput' = w.currentOutput
  /\ fullTranscript' = w.fullTranscript
  /\ streamRef' = w.streamRef
  /\ processorRef' = w.processorRef
  /\ activeSessionRef' = w.activeSessionRef
  /\ audioContextRef' = w.audioContextRef
  /\ outputAudioContextRef' = w.outputAudioContextRef
  /\ mic' = w.mic
  /\ inCtx' = w.inCtx
  /\ outCtx' = w.outCtx
  /\ outClock' = w.outClock
  /\ chan' = w.chan
  /\ decodes' = w.decodes
  /\ timeline' = w.timeline
  /\ armed' = w.armed
  /\ finalTranscript' = w.finalTranscript
  /\ jsonText' = w.jsonText
  /\ serial' = w.serial
  /\ endOf' = w.endOf
  /\ analysed' = w.analysed
  /\ reported' = w.reported
  /\ resetDuring' = w.resetDuring
  /\ sampleRate' = w.sampleRate
  /\ inputData' = w.inputData
  /\ finalData' = w.finalData
  /\ enableGestures' = w.enableGestures
  /\ videoStreamRef' = w.videoStreamRef
  /\ cam' = w.cam
  /\ config' = w.config
  /\ updates' = w.updates
  /\ storage' = w.storage
  /\ mounted' = w.mounted
  /\ processor' = w.processor
  /\ onaudioprocess' = w.onaudioprocess
  /\ settled' = w.settled
  /\ queued' = w.queued
  /\ sent' = w.sent
  /\ lapsed' = w.lapsed

Max(a, b) == IF a >= b THEN a ELSE b

\* One more user click.
Click == clicks < MaxClicks /\ clicks' = clicks + 1

\* One more failure of the environment (offline, a refused device, a channel
\* error, a close by the server, a chunk that does not decode).
Fault == faults < MaxFaults /\ faults' = faults + 1

\* ------------------------------------------------------------------- text
\* s.trim() is truthy: s holds a character that is not white space.
HasText(s) == \E i \in 1..Len(s) : SubSeq(s, i, i) \notin {" ", "\n"}

\* Math.floor(n / 3.5)
FloorDiv3_5(n) == (2 * n) \div 7

\* Math.ceil(n / 3.5)
CeilDiv3_5(n) == (2 * n + 6) \div 7

InterruptMarker == " (interrupted)"

TurnLine(input, output) ==
  "Candidate: " \o input \o "\nInterviewer: " \o output \o "\n"

\* ------------------------------------------------- onmessage, synchronous part
\* A message: partial output text, partial input text, the two flags and an
\* audio chunk (0: none, d > 0: a chunk that decodes to d quanta).
AppendText(w, m) ==
  [w EXCEPT !.currentOutput = @ \o m.outText,
            !.currentInput = @ \o m.inText]

\* The commit without the clearing of the accumulators.
TurnCompleteKeepsText(w) ==
  IF HasText(w.currentInput) \/ HasText(w.currentOutput)
  THEN [w EXCEPT
          !.transcripts = @ \o <<[role |-> "user", text |-> w.currentInput],
                                 [role |-> "model", text |-> w.currentOutput]>>,
          !.tokenUsage = @ + CeilDiv3_5(Len(w.currentInput) + Len(w.currentOutput)),
          !.fullTranscript = @ \o TurnLine(w.currentInput, w.currentOutput)]
  ELSE w

TurnComplete(w) ==
  LET committed ==
        IF HasText(w.currentInput) \/ HasText(w.currentOutput)
        THEN [w EXCEPT
                !.transcripts = @ \o <<[role |-> "user", text |-> w.currentInput],
                                       [role |-> "model", text |-> w.currentOutput]>>,
                !.tokenUsage = @ + CeilDiv3_5(Len(w.currentInput) + Len(w.currentOutput)),
                !.fullTranscript = @ \o TurnLine(w.currentInput, w.currentOutput)]
        ELSE w
  IN  [committed EXCEPT !.currentInput = "", !.currentOutput = ""]

\* The interruption that leaves sourcesRef as it is.
InterruptedKeepsSources(w) ==
  LET moved ==
        [w EXCEPT
           !.nextStartTime = IF w.outputAudioContextRef = 0 THEN 0
                             ELSE w.outClock[w.outputAudioContextRef],
           !.timeline = <<>>,
           !.decodes = [i \in 1..Len(@) |-> [@[i] EXCEPT !.cut = TRUE]]]
  IN  IF HasText(w.currentInput) \/ HasText(w.currentOutput)
      THEN [moved EXCEPT
              !.transcripts = @ \o <<[role |-> "user", text |-> w.currentInput],
                                     [role |-> "model",
                                      text |-> w.currentOutput \o InterruptMarker]>>,
              !.fullTranscript =
                 @ \o TurnLine(w.currentInput, w.currentOutput \o InterruptMarker),
              !.currentInput = "",
              !.currentOutput = ""]
      ELSE moved

Interrupted(w) ==
  LET stopped ==
        [w EXCEPT
           !.sources = {},
           !.nextStartTime = IF w.outputAudioContextRef = 0 THEN 0
                             ELSE w.outClock[w.outputAudioContextRef],
           !.timeline = <<>>,
           !.decodes = [i \in 1..Len(@) |-> [@[i] EXCEPT !.cut = TRUE]]]
  IN  IF HasText(w.currentInput) \/ HasText(w.currentOutput)
      THEN [stopped EXCEPT
              !.transcripts = @ \o <<[role |-> "user", text |-> w.currentInput],
                                     [role |-> "model",
                                      text |-> w.currentOutput \o InterruptMarker]>>,
              !.fullTranscript =
                 @ \o TurnLine(w.currentInput, w.currentOutput \o InterruptMarker),
              !.currentInput = "",
              !.currentOutput = ""]
      ELSE stopped

\* The chunk enters decodeAudioData only if the output context is there and
\* running; the context is captured for the continuation.  n is the number
\* of the message among those the channel delivered, tok the token the
\* message was received under; cut records that an interrupted event was
\* handled while the chunk was in decodeAudioData.
ReceiveAudio(w, m, n) ==
  IF /\ m.audio > 0
     /\ w.outputAudioContextRef # 0
     /\ w.outCtx[w.outputAudioContextRef] = "running"
  THEN [w EXCEPT !.decodes = Append(@, [ctx |-> w.outputAudioContextRef,
                                        dur |-> m.audio, seq |-> n,
                                        tok |-> w.currentSessionId,
                                        cut |-> FALSE])]
  ELSE w

\* The handler whose interrupted branch reads the texts as they were before
\* the turn-complete branch cleared them.
HandleMessageFlagsApart(w, m, n) ==
  LET w1 == AppendText(w, m)
      w2 == IF m.turnComplete THEN TurnComplete(w1) ELSE w1
      w3 == IF m.interrupted
            THEN Interrupted([w2 EXCEPT !.currentInput = w1.currentInput,
                                        !.currentOutput = w1.currentOutput])
            ELSE w2
  IN  ReceiveAudio(w3, m, n)

HandleMessage(w, m, n) ==
  LET w1 == AppendText(w, m)
      w2 == IF m.turnComplete THEN TurnComplete(w1) ELSE w1
      w3 == IF m.interrupted THEN Interrupted(w2) ELSE w2
  IN  ReceiveAudio(w3, m, n)

\* The channel can deliver an event: it is connecting, or open with its
\* connect promise resolved, or on its way out.
Delivers(a) ==
  \/ chan[a] \in {"connecting", "failing", "closing"}
  \/ chan[a] = "open" /\ startPc[a] = "done"

OnMessage(a, m) ==
  /\ chan[a] \in {"open", "closing"}
  /\ Delivers(a)
  /\ msgs < MaxMsgs
  /\ Len(decodes) < MaxPending \/ m.audio = 0
  /\ msgs' = msgs + 1
  /\ completions' = IF m.turnComplete \/ m.interrupted
                    THEN completions + 1 ELSE completions
  /\ IF currentSessionId # tok[a]
     THEN Commit(World)
     ELSE Commit(HandleMessage(World, m, msgs + 1))
  /\ UNCHANGED <<tok, tasks, clicks, faults>>

\* --------------------------------------- onmessage, after await decodeAudioData
RemoveAt(s, i) == SubSeq(s, 1, i - 1) \o SubSeq(s, i + 1, Len(s))

\* nextStartTime = max(nextStartTime, ctx.currentTime); source.start(nextStartTime);
\* nextStartTime += duration; sources.add(source)
\* The scheduling that starts every buffer at the clock, whatever the cursor.
ScheduleAtClock(w, d) ==
  LET at == w.outClock[d.ctx]
  IN  [w EXCEPT
         !.nextStartTime = at + d.dur,
         !.sources = @ \cup {[kind |-> "chunk", ctx |-> d.ctx, start |-> at,
                              dur |-> d.dur]},
         !.timeline = Append(@, [start |-> at, dur |-> d.dur,
                                 clock |-> w.outClock[d.ctx], seq |-> d.seq])]

Schedule(w, d) ==
  LET at == Max(w.nextStartTime, w.outClock[d.ctx])
  IN  [w EXCEPT
         !.nextStartTime = at + d.dur,
         !.sources = @ \cup {[kind |-> "chunk", ctx |-> d.ctx, start |-> at,
                              dur |-> d.dur]},
         !.timeline = Append(@, [start |-> at, dur |-> d.dur,
                                 clock |-> w.outClock[d.ctx], seq |-> d.seq])]

DecodeDone(i) ==
  /\ i \in 1..Len(decodes)
  /\ Commit(Schedule([World EXCEPT !.decodes = RemoveAt(@, i)], decodes[i]))
  /\ UNCHANGED <<tok, tasks, msgs, completions, clicks, faults>>

\* The catch that gives up the timeline with the chunk.
DecodeFailResets(i) ==
  /\ i \in 1..Len(decodes)
  /\ Commit([World EXCEPT !.decodes = RemoveAt(@, i), !.nextStartTime = 0,
                          !.timeline = <<>>])
  /\ UNCHANGED <<tok, tasks, msgs, completions, clicks>>
  /\ Fault

\* catch (decodeErr): logged, nothing else
DecodeFail(i) ==
  /\ i \in 1..Len(decodes)
  /\ Commit([World EXCEPT !.decodes = RemoveAt(@, i)])
  /\ UNCHANGED <<tok, tasks, msgs, completions, clicks>>
  /\ Fault

\* 'ended' listener of a scheduled source: playback reached its end.
SourceEnded(n) ==
  /\ n \in sources
  /\ n.kind = "chunk"
  /\ outClock[n.ctx] >= n.start + n.dur
  /\ Commit([World EXCEPT !.sources = @ \ {n}])
  /\ UNCHANGED <<tok, tasks, msgs, completions, clicks, faults>>

\* The audio clock of a running output context advances.
Tick(a, t) ==
  /\ outCtx[a] = "running"
  /\ t \in Instants
  /\ t > outClock[a]
  /\ Commit([World EXCEPT !.outClock[a] = t])
  /\ UNCHANGED <<tok, tasks, msgs, completions, clicks, faults>>


\* ------------------------------------------------------------ stopAllMedia
\* session.close(): an open channel starts closing; its onclose follows.
CloseChan(c) == IF c = "open" THEN "closing" ELSE c

\* The statements of stopAllMedia up to the first AudioContext.close():
\* token invalidated, tracks stopped, processor disconnected, live session
\* closed (session.close() returns nothing, so its await does not suspend).
StopSync(w) ==
  LET w1 == [w EXCEPT !.currentSessionId = 0,
                      !.lapsed = @ \cup {a \in Attempts : tok[a] # 0}]
      w2 == IF w1.streamRef # 0
            THEN [w1 EXCEPT !.mic[w1.streamRef] = "off", !.streamRef = 0]
            ELSE w1
      v  == IF w2.videoStreamRef # 0
            THEN [w2 EXCEPT !.cam[w2.videoStreamRef] = "off",
                            !.videoStreamRef = 0]
            ELSE w2
      w3 == IF v.processorRef # 0
            THEN [v EXCEPT !.processor[v.processorRef] = "off",
                           !.onaudioprocess[v.processorRef] = 0,
                           !.settled[v.processorRef] = FALSE,
                           !.processorRef = 0]
            ELSE v
  IN  IF w3.activeSessionRef # 0
      THEN [w3 EXCEPT !.chan[w3.activeSessionRef] = CloseChan(@),
                      !.activeSessionRef = 0]
      ELSE w3

\* The teardown that also forgets the transcript collected so far.
StopSourcesAndTranscript(w) == [w EXCEPT !.sources = {}, !.fullTranscript = ""]

\* 7. stop and clear the playing sources
StopSources(w) == [w EXCEPT !.sources = {}]

\* 6b. close the output context (suspends) or fall through to step 7.
\* AudioContext.close() marks the context closed at the call; its promise
\* settles later.
StopFromOut(w) ==
  IF w.outputAudioContextRef # 0 /\ w.outCtx[w.outputAudioContextRef] = "running"
  THEN [w |-> [w EXCEPT !.outCtx[w.outputAudioContextRef] = "off"],
        at |-> "stopOut"]
  ELSE [w |-> StopSources(w), at |-> "end"]

\* 6a. close the input context (suspends) or go on with the output context.
StopFromIn(w) ==
  IF w.audioContextRef # 0 /\ w.inCtx[w.audioContextRef] = "running"
  THEN [w |-> [w EXCEPT !.inCtx[w.audioContextRef] = "off"], at |-> "stopIn"]
  ELSE StopFromOut(w)

\* stopAllMedia from its call to its first suspension (or its end).
StopBegin(w) == StopFromIn(StopSync(w))

\* stopAllMedia resumed after the close it awaited at `at`: the reference is
\* nulled whatever it points to by now.
StopResume(w, at) ==
  IF at = "stopIn"
  THEN StopFromIn([w EXCEPT !.audioContextRef = 0])
  ELSE [w |-> StopSources([w EXCEPT !.outputAudioContextRef = 0]), at |-> "end"]

\* useEffect on [state]: the countdown is cancelled when the state becomes
\* ERROR or IDLE.
Effects(w) ==
  IF w.state # state /\ w.state \in {"ERROR", "IDLE"}
  THEN [w EXCEPT !.showCountdown = FALSE]
  ELSE w

\* A stopAllMedia() call that is not awaited, made by a handler of attempt a.
\* One such call per attempt is in flight at a time.
SpawnStop(a, w) ==
  LET r == StopBegin(w)
  IN  /\ stopPc[a] = "off"
      /\ Commit(Effects(r.w))
      /\ stopPc' = [stopPc EXCEPT ![a] = IF r.at = "end" THEN "off" ELSE r.at]

BackgroundStopResume(a) ==
  /\ stopPc[a] \in {"stopIn", "stopOut"}
  /\ LET r == StopResume(World, stopPc[a])
     IN  /\ Commit(r.w)
         /\ stopPc' = [stopPc EXCEPT ![a] = IF r.at = "end" THEN "off" ELSE r.at]
  /\ UNCHANGED <<tok, apiKey, startPc, endPc, resetPc, msgs, completions, clicks, faults>>

\* ---------------------------------------------------------- startInterview
\* After `await stopAllMedia()`: the countdown is shown and the cooldown timer
\* is set.
StartAfterStop(a, r) ==
  IF r.at = "end"
  THEN /\ Commit([r.w EXCEPT !.showCountdown = TRUE, !.armed[a] = r.w.now])
       /\ startPc' = [startPc EXCEPT ![a] = "cooldown"]
  ELSE /\ Commit(r.w)
       /\ startPc' = [startPc EXCEPT ![a] = r.at]

\* The setup form's onStart; the form is rendered in IDLE only.
StartClick(a, online) ==
  /\ state = "IDLE"
  /\ startPc[a] = "idle"
  /\ \A b \in Attempts : b < a => startPc[b] # "idle"
  /\ IF ~online
     THEN /\ Commit(Effects([World EXCEPT
                 !.error = "No internet connection. Please check your network.",
                 !.state = "ERROR"]))
          /\ startPc' = [startPc EXCEPT ![a] = "done"]
          /\ Fault
     ELSE /\ StartAfterStop(a, StopBegin(World))
          /\ UNCHANGED faults
  /\ UNCHANGED <<tok, apiKey, stopPc, endPc, resetPc, msgs, completions>>
  /\ Click

StartStopResume(a) ==
  /\ startPc[a] \in {"stopIn", "stopOut"}
  /\ StartAfterStop(a, StopResume(World, startPc[a]))
  /\ UNCHANGED <<tok, apiKey, stopPc, endPc, resetPc, msgs, completions, clicks, faults>>

\* New session id and reset of the per-session cursors and React state.
Mint(w, t) ==
  [w EXCEPT !.now = t,
            !.serial = @ + 1,
            !.currentSessionId = t,
            !.lapsed = @ \cup {a \in Attempts : tok[a] \notin {0, t}},
            !.nextStartTime = 0,
            !.timeline = <<>>,
            !.currentInput = "",
            !.currentOutput = "",
            !.fullTranscript = "",
            !.state = "CONNECTING",
            !.error = "",
            !.transcripts = <<>>,
            !.tokenUsage = 0]

\* if (finalConfig.enableGestures) startGestureAnalysis(newSessionId): the
\* call is not awaited; it runs to its first await (the gesture service or
\* the camera).
StartGesture(w, a) ==
  IF w.enableGestures THEN [w EXCEPT !.cam[a] = "asking"] ELSE w

\* new AudioContext x 2
CreateContexts(w, a) ==
  [w EXCEPT !.inCtx[a] = "running", !.outCtx[a] = "running", !.outClock[a] = 0]

\* startSilenceLoop: a looping one-sample source per context
SilenceIn(a) == [kind |-> "silenceIn", ctx |-> a, start |-> 0, dur |-> 0]
SilenceOut(a) == [kind |-> "silenceOut", ctx |-> a, start |-> 0, dur |-> 0]

\* The references are set, the silence loops start and join sourcesRef; the
\* handler then waits for getUserMedia.
PublishContexts(w, a) ==
  [w EXCEPT !.audioContextRef = a,
            !.outputAudioContextRef = a,
            !.sources = @ \cup {SilenceIn(a), SilenceOut(a)}]

\* The catch of startInterview that sets the message and leaves the state.
StartFailedSilently(w, message) == [w EXCEPT !.error = message]

\* catch (err) of startInterview
StartFailed(w, message) == [w EXCEPT !.error = message, !.state = "ERROR"]

\* The cooldown timer (600 ms) fires.  Date.now() is the last reading or a
\* later one, and later than every reading made before the timer was set.
\* `suspended`: the new contexts start suspended and resume() is awaited.
StartAfterCooldown(a, t, suspended) ==
  /\ startPc[a] = "cooldown"
  /\ t \in {now, now + 1}
  /\ t > armed[a]
  /\ tok' = [tok EXCEPT ![a] = t]
  /\ IF ~apiKey
     THEN /\ SpawnStop(a, StartFailed(StartGesture(Mint(World, t), a),
                                      "API Key not found in environment"))
          /\ startPc' = [startPc EXCEPT ![a] = "done"]
     ELSE IF suspended
     THEN /\ Commit(CreateContexts(StartGesture(Mint(World, t), a), a))
          /\ startPc' = [startPc EXCEPT ![a] = "resume"]
          /\ UNCHANGED stopPc
     ELSE /\ Commit(PublishContexts(
                      CreateContexts(StartGesture(Mint(World, t), a), a), a))
          /\ startPc' = [startPc EXCEPT ![a] = "mic"]
          /\ UNCHANGED stopPc
  /\ UNCHANGED <<apiKey, endPc, resetPc, msgs, completions, clicks, faults>>

\* inputCtx.resume() and outputCtx.resume() have settled.
StartResumed(a) ==
  /\ startPc[a] = "resume"
  /\ Commit(PublishContexts(World, a))
  /\ startPc' = [startPc EXCEPT ![a] = "mic"]
  /\ UNCHANGED <<tok, apiKey, stopPc, endPc, resetPc, msgs, completions, clicks, faults>>

\* getUserMedia resolved: stream and processor are stored and
\* ai.live.connect is called.
MicGranted(w, a) ==
  [w EXCEPT !.streamRef = a, !.mic[a] = "live", !.processorRef = a,
            !.processor[a] = "on", !.chan[a] = "connecting"]

StartMicGranted(a) ==
  /\ startPc[a] = "mic"
  /\ Commit(MicGranted(World, a))
  /\ startPc' = [startPc EXCEPT ![a] = "connecting"]
  /\ UNCHANGED <<tok, apiKey, stopPc, endPc, resetPc, msgs, completions, clicks, faults>>

\* getUserMedia rejected: rethrown, caught by the outer catch.
StartMicDenied(a) ==
  /\ startPc[a] = "mic"
  /\ SpawnStop(a, StartFailed(World,
                   "Microphone access denied. Please allow permissions."))
  /\ startPc' = [startPc EXCEPT ![a] = "done"]
  /\ UNCHANGED <<tok, apiKey, endPc, resetPc, msgs, completions, clicks>>
  /\ Fault

\* getUserMedia resolved for a call whose input context was closed meanwhile:
\* the stream is stored, and createMediaStreamSource on the closed context
\* either works as above or throws inside the same try, which reports the
\* failure as a refused microphone.
StartMicAttachFailed(a) ==
  /\ startPc[a] = "mic"
  /\ inCtx[a] = "off"
  /\ SpawnStop(a, StartFailed([World EXCEPT !.streamRef = a, !.mic[a] = "live"],
                   "Microphone access denied. Please allow permissions."))
  /\ startPc' = [startPc EXCEPT ![a] = "done"]
  /\ UNCHANGED <<tok, apiKey, endPc, resetPc, msgs, completions, clicks, faults>>

\* ----------------------------------------------------- startGestureAnalysis
\* getUserMedia({video}) resolved: the stream is stored and handed to the
\* video element.
CameraGranted(a) ==
  /\ cam[a] = "asking"
  /\ Commit([World EXCEPT !.videoStreamRef = a, !.cam[a] = "live"])
  /\ UNCHANGED <<tok, tasks, msgs, completions, clicks, faults>>

\* The mutant of CameraDenied: the failure is reported as the microphone's is.
CameraDeniedFatal(a) ==
  /\ cam[a] = "asking"
  /\ Commit(Effects(StartFailed([World EXCEPT !.cam[a] = "denied"],
                                "Camera access denied.")))
  /\ UNCHANGED <<tok, tasks, msgs, completions, clicks>>
  /\ Fault

\* gestureService.initialize() or getUserMedia({video}) rejected:
\* catch (e) { console.error(...) }, "Do not fail the interview if camera
\* fails, just log it".
CameraDenied(a) ==
  /\ cam[a] = "asking"
  /\ Commit([World EXCEPT !.cam[a] = "denied"])
  /\ UNCHANGED <<tok, tasks, msgs, completions, clicks>>
  /\ Fault

\* video.onloadeddata: the tracks are stopped if the session is not the
\* current one any more, else the detection loop starts.
OnLoadedData(a) ==
  /\ cam[a] = "live"
  /\ IF currentSessionId # tok[a]
     THEN Commit([World EXCEPT !.cam[a] = "off"])
     ELSE Commit([World EXCEPT !.cam[a] = "playing"])
  /\ UNCHANGED <<tok, tasks, msgs, completions, clicks, faults>>

\* ------------------------------------------------------------------ capture
\* const targetSampleRate = 16000                                    (l. 411)
targetSampleRate == 16000

\* Rates a device gives an input context that was asked for 16 kHz.
Rates == {8000, 16000, 24000, 32000, 44100, 48000}

\* Sample values, and the capture blocks of at most MaxBlock samples.
Samples == {-1, 0, 1}

Blocks == UNION { [1..n -> Samples] : n \in 0..MaxBlock }

\* With ratio = sourceSampleRate / targetSampleRate, the quotients taken
\* exactly (for blocks of up to 16384 samples at the rates devices give,
\* the double-precision results are the same):
\* Math.floor(inputData.length / ratio)
NewLength(length, sourceSampleRate) ==
  (length * targetSampleRate) \div sourceSampleRate

\* The index rounded to the nearest sample instead: Math.round(i * ratio).
ReadIndexRounded(i, sourceSampleRate) ==
  (2 * i * sourceSampleRate + targetSampleRate) \div (2 * targetSampleRate)

\* Math.floor(i * ratio), i from 0
ReadIndex(i, sourceSampleRate) ==
  (i * sourceSampleRate) \div targetSampleRate

\* let finalData = inputData; if (sourceSampleRate > targetSampleRate) ...
\* The decimation applied whenever the rates differ.
DownsampleAnyRate(data, sourceSampleRate) ==
  IF sourceSampleRate # targetSampleRate
  THEN [i \in 1..NewLength(Len(data), sourceSampleRate) |->
          data[ReadIndex(i - 1, sourceSampleRate) + 1]]
  ELSE data

Downsample(data, sourceSampleRate) ==
  IF sourceSampleRate > targetSampleRate
  THEN [i \in 1..NewLength(Len(data), sourceSampleRate) |->
          data[ReadIndex(i - 1, sourceSampleRate) + 1]]
  ELSE data

\* session.sendRealtimeInput({ media: pcmBlob }) inside the `.then` of the
\* session promise of attempt a: the frame goes out if the token is still
\* that attempt's and its channel is open (on a closed socket the call
\* throws or drops the frame, and the catch logs it).
SendFrames(w, a, n) ==
  IF w.currentSessionId = tok[a] /\ w.chan[a] = "open"
  THEN [w EXCEPT !.sent[a] = @ + n]
  ELSE w

\* The body of the closure of attempt a, held by processor p: token check,
\* decimation, and the `.then` on its session promise, which runs in the
\* same task if the promise is settled and waits for sessionResolver
\* otherwise.
Capture(w, p, a, data) ==
  IF w.currentSessionId # tok[a]
  THEN w
  ELSE LET w1 == [w EXCEPT !.inputData = data,
                           !.finalData = Downsample(data, w.sampleRate)]
       IN  IF w.settled[p]
           THEN SendFrames(w1, a, 1)
           ELSE [w1 EXCEPT !.queued[a] = @ + 1]

\* processor.onaudioprocess: processor p calls the closure it holds with a
\* block while it is connected and its context runs.
OnAudioProcess(p, data) ==
  /\ processor[p] = "on"
  /\ inCtx[p] = "running"
  /\ onaudioprocess[p] # 0
  /\ sent[onaudioprocess[p]] + queued[onaudioprocess[p]] < MaxFrames
  /\ Commit(Capture(World, p, onaudioprocess[p], data))
  /\ UNCHANGED <<tok, tasks, msgs, completions, clicks, faults>>

\* ------------------------------------------------------ channel callbacks
\* onopen
\* if (processorRef.current) processorRef.current.onaudioprocess = ...
InstallCapture(w, a) ==
  IF w.processorRef # 0
  THEN [w EXCEPT !.onaudioprocess[w.processorRef] = a,
                 !.settled[w.processorRef] = FALSE]
  ELSE w

OnOpen(a) ==
  /\ chan[a] = "connecting"
  /\ IF currentSessionId # tok[a]
     THEN Commit([World EXCEPT !.chan[a] = "open"])
     ELSE Commit(InstallCapture([World EXCEPT !.chan[a] = "open",
                                             !.state = "ACTIVE"], a))
  /\ UNCHANGED <<tok, tasks, msgs, completions, clicks, faults>>

\* sessionResolver(session); activeSessionRef.current = session: the frames
\* waiting on the session promise go out right after.
SessionResolved(w, a) ==
  SendFrames([w EXCEPT !.settled = [p \in Attempts |->
                                      @[p] \/ w.onaudioprocess[p] = a],
                       !.activeSessionRef = a,
                       !.queued[a] = 0], a, w.queued[a])

\* connection.then: the connect promise resolves once the channel has opened,
\* before the channel delivers anything else.
ConnectResolved(a) ==
  /\ startPc[a] = "connecting"
  /\ chan[a] = "open"
  /\ IF currentSessionId # tok[a]
     THEN Commit([World EXCEPT !.chan[a] = CloseChan(@)])
     ELSE Commit(SessionResolved(World, a))
  /\ startPc' = [startPc EXCEPT ![a] = "done"]
  /\ UNCHANGED <<tok, apiKey, stopPc, endPc, resetPc, msgs, completions, clicks,
                 faults>>

\* A connect that fails never resolves its promise: the call is over.
StartOver(a) ==
  startPc' = [startPc EXCEPT ![a] = IF @ = "connecting" /\ chan[a] # "open"
                                    THEN "done" ELSE @]

\* onclose: the channel is gone, closed by either side.
OnClose(a) ==
  /\ Delivers(a)
  /\ IF chan[a] \in {"connecting", "open"} THEN Fault ELSE UNCHANGED faults
  /\ LET w == [World EXCEPT !.chan[a] = "off"]
     IN  IF currentSessionId = tok[a]
         THEN SpawnStop(a, [w EXCEPT
                              !.state = "ERROR",
                              !.error = "Session closed unexpectedly by server."])
         ELSE Commit(w) /\ UNCHANGED stopPc
  /\ StartOver(a)
  /\ UNCHANGED <<tok, apiKey, endPc, resetPc, msgs, completions, clicks>>

ErrorMessage(kind) ==
  CASE kind = "network" ->
         "Connection interrupted due to network instability. Please check your internet."
    [] kind = "permission" ->
         "Session expired or permission denied. Please reset and try again."
    [] OTHER -> "Connection was interrupted."

\* onerror; the channel closes after it.
OnError(a, kind) ==
  /\ chan[a] \in {"connecting", "open"}
  /\ Delivers(a)
  /\ Fault
  /\ LET w == [World EXCEPT
                 !.chan[a] = IF @ = "connecting" THEN "failing" ELSE "closing"]
     IN  IF currentSessionId # tok[a]
         THEN Commit(w) /\ UNCHANGED stopPc
         ELSE SpawnStop(a, [w EXCEPT !.error = ErrorMessage(kind),
                                     !.state = "ERROR"])
  /\ StartOver(a)
  /\ UNCHANGED <<tok, apiKey, endPc, resetPc, msgs, completions, clicks>>

\* ------------------------------------------------------- plain UI handlers
\* onClick={() => setState(IDLE)}: the header logo (hidden behind the
\* full-screen countdown overlay while that is shown), the Error view's
\* "Start New Session" and the report's onReset.
LogoClick ==
  /\ ~showCountdown
  /\ state # "IDLE"
  /\ Commit(Effects([World EXCEPT !.state = "IDLE"]))
  /\ UNCHANGED <<tok, tasks, msgs, completions, faults>>
  /\ Click

StartNewSessionClick ==
  /\ state = "ERROR"
  /\ Commit(Effects([World EXCEPT !.state = "IDLE"]))
  /\ UNCHANGED <<tok, tasks, msgs, completions, faults>>
  /\ Click

ReportResetClick ==
  /\ state = "FEEDBACK"
  /\ feedback.kind = "report"
  /\ Commit(Effects([World EXCEPT !.state = "IDLE"]))
  /\ UNCHANGED <<tok, tasks, msgs, completions, faults>>
  /\ Click

\* CountdownOverlay's last timer (7000 ms) calls onComplete.  The overlay is
\* mounted when a cooldown (600 ms) begins and every cooldown under way began
\* within the cooldown of the call that mounted it, so the cooldowns end first.
\* So do the local awaits and the 2000 ms timer of a handleEndInterview call
\* that ended an earlier session.
CountdownComplete ==
  /\ showCountdown
  /\ \A a \in Attempts : startPc[a] # "cooldown"
  /\ \A e \in Ends :
       endPc[e] \in {"stopIn", "stopOut", "short"} => endOf[e] = serial
  /\ Commit([World EXCEPT !.showCountdown = FALSE])
  /\ UNCHANGED <<tok, tasks, msgs, completions, clicks, faults>>


\* ----------------------------------------------------------- handleHardReset
\* The tail of handleHardReset: references dropped, cursors and React state
\* cleared, state IDLE.
ResetFinal(w) ==
  [w EXCEPT !.audioContextRef = 0,
            !.outputAudioContextRef = 0,
            !.streamRef = 0,
            !.videoStreamRef = 0,
            !.processorRef = 0,
            !.activeSessionRef = 0,
            !.sources = {},
            !.nextStartTime = 0,
            !.timeline = <<>>,
            !.currentInput = "",
            !.currentOutput = "",
            !.fullTranscript = "",
            !.transcripts = <<>>,
            !.feedback = [kind |-> "null"],
            !.error = "",
            !.tokenUsage = 0,
            !.state = "IDLE",
            !.showCountdown = FALSE]

\* The two closes handleHardReset does itself after stopAllMedia.
ResetFromOut(w) ==
  IF w.outputAudioContextRef # 0 /\ w.outCtx[w.outputAudioContextRef] = "running"
  THEN [w |-> [w EXCEPT !.outCtx[w.outputAudioContextRef] = "off"],
        at |-> "closeOut"]
  ELSE [w |-> ResetFinal(w), at |-> "end"]

ResetFromIn(w) ==
  IF w.audioContextRef # 0 /\ w.inCtx[w.audioContextRef] = "running"
  THEN [w |-> [w EXCEPT !.inCtx[w.audioContextRef] = "off"], at |-> "closeIn"]
  ELSE ResetFromOut(w)

ResetAfterStop(r) == IF r.at = "end" THEN ResetFromIn(r.w) ELSE r

\* handleHardReset resumed at position `at`.
ResetResume(w, at) ==
  CASE at \in {"stopIn", "stopOut"} -> ResetAfterStop(StopResume(w, at))
    [] at = "closeIn" -> ResetFromOut(w)
    [] OTHER -> [w |-> ResetFinal(w), at |-> "end"]

ResetStep(r) ==
  /\ Commit(Effects(r.w))
  /\ resetPc' = IF r.at = "end" THEN "idle" ELSE r.at

\* The header's reset button and the Error view's "Reset Session State".
\* The startInterview calls suspended in their cooldown, in resume() or in
\* getUserMedia.
Suspended == { a \in Attempts : startPc[a] \in {"cooldown", "resume", "mic"} }

\* handleHardReset from its call to its first suspension (or its end).
HardReset(w) ==
  /\ ResetStep(ResetAfterStop(StopBegin(w)))
  /\ UNCHANGED <<tok, apiKey, startPc, stopPc, endPc, msgs, completions, faults>>
  /\ Click

HardResetClick ==
  /\ resetPc = "idle"
  /\ HardReset(World)

\* The same click, with the calls it finds suspended recorded.
HardResetObserved ==
  /\ resetPc = "idle"
  /\ HardReset([World EXCEPT !.resetDuring = @ \cup Suspended])

HardResetResume ==
  /\ resetPc \in {"stopIn", "stopOut", "closeIn", "closeOut"}
  /\ ResetStep(ResetResume(World, resetPc))
  /\ UNCHANGED <<tok, apiKey, startPc, stopPc, endPc, msgs, completions, clicks, faults>>

\* ------------------------------------------------------------ the report
\* JavaScript values of a parsed payload.
Undef == [k |-> "undefined"]
Null == [k |-> "null"]
Bool(b) == [k |-> "boolean", v |-> b]
Num(n) == [k |-> "number", v |-> n]
Str(s) == [k |-> "string", v |-> s]
List(q) == [k |-> "array", v |-> q]
Obj(f) == [k |-> "object", v |-> f]

Truthy(x) ==
  /\ x.k \notin {"undefined", "null"}
  /\ x.k = "boolean" => x.v
  /\ x.k = "number" => x.v # 0
  /\ x.k = "string" => x.v # ""

\* x || d
OrElse(x, d) == IF Truthy(x) THEN x ELSE d

\* x.name and x?.name for a value that is not null or undefined
Get(x, name) ==
  IF x.k = "object" /\ name \in DOMAIN x.v THEN x.v[name] ELSE Undef

\* --------------------------------------------------------- text of a payload
\* The character at position i of s, "" beyond its ends.
Ch(s, i) == IF i \in 1..Len(s) THEN SubSeq(s, i, i) ELSE ""

\* s has t at position i.
HasAt(s, i, t) == i + Len(t) - 1 <= Len(s) /\ SubSeq(s, i, i + Len(t) - 1) = t

\* The positions from i on at which s has t.
Hits(s, i, t) == { j \in i..Len(s) : HasAt(s, j, t) }

Least(S) == CHOOSE j \in S : \A k \in S : j <= k

Greatest(S) == CHOOSE j \in S : \A k \in S : j >= k

\* s.replace(/t/g, ''): every occurrence of t, left to right, is removed.
RECURSIVE RemoveFrom(_, _, _)
RemoveFrom(s, i, t) ==
  IF Hits(s, i, t) = {} THEN SubSeq(s, i, Len(s))
  ELSE LET j == Least(Hits(s, i, t))
       IN  SubSeq(s, i, j - 1) \o RemoveFrom(s, j + Len(t), t)

RemoveAll(s, t) == RemoveFrom(s, 1, t)

\* s.indexOf(c) and s.lastIndexOf(c), counted from 1; 0 when c is not in s.
IndexOf(s, c) == IF Hits(s, 1, c) = {} THEN 0 ELSE Least(Hits(s, 1, c))

LastIndexOf(s, c) == IF Hits(s, 1, c) = {} THEN 0 ELSE Greatest(Hits(s, 1, c))

\* White space of JSON and of the \s of a regular expression in these texts.
WhiteSpace == {" ", "\n", "\t", "\r"}

RECURSIVE SkipSpace(_, _)
SkipSpace(s, i) == IF Ch(s, i) \in WhiteSpace THEN SkipSpace(s, i + 1) ELSE i

\* The commas of s from i on that white space alone parts from a bracket c.
CommasBefore(s, i, c) ==
  { j \in i..Len(s) : Ch(s, j) = "," /\ Ch(s, SkipSpace(s, j + 1)) = c }

\* s.replace(/,\s*c/g, 'c') for a bracket c.
RECURSIVE DropCommasFrom(_, _, _)
DropCommasFrom(s, i, c) ==
  IF CommasBefore(s, i, c) = {} THEN SubSeq(s, i, Len(s))
  ELSE LET j == Least(CommasBefore(s, i, c))
       IN  SubSeq(s, i, j - 1) \o c \o DropCommasFrom(s, SkipSpace(s, j + 1) + 1, c)

DropCommasBefore(s, c) == DropCommasFrom(s, 1, c)

\* ----------------------------------------------------------------- JSON.parse
\* The grammar of JSON over objects, arrays, strings without escapes,
\* integers and the three literals.  A parse step yields the value and the
\* position after it, or fails.
Parsed(v, pos) == [ok |-> TRUE, v |-> v, pos |-> pos]
NotParsed == [ok |-> FALSE, v |-> Undef, pos |-> 0]

Digit == {"0", "1", "2", "3", "4", "5", "6", "7", "8", "9"}

DigitValue(c) ==
  CASE c = "0" -> 0 [] c = "1" -> 1 [] c = "2" -> 2 [] c = "3" -> 3
    [] c = "4" -> 4 [] c = "5" -> 5 [] c = "6" -> 6 [] c = "7" -> 7
    [] c = "8" -> 8 [] c = "9" -> 9

\* The digits from position i on, as a number continued from n.
RECURSIVE ParseDigits(_, _, _)
ParseDigits(s, i, n) ==
  IF Ch(s, i) \in Digit THEN ParseDigits(s, i + 1, 10 * n + DigitValue(Ch(s, i)))
  ELSE Parsed(Num(n), i)

\* An integer: no leading zero, no fraction, no exponent.
ParseNumber(s, i) ==
  LET neg == Ch(s, i) = "-"
      j == IF neg THEN i + 1 ELSE i
      r == ParseDigits(s, j, 0)
  IN  IF Ch(s, j) \notin Digit THEN NotParsed
      ELSE IF Ch(s, j) = "0" /\ Ch(s, j + 1) \in Digit THEN NotParsed
      ELSE IF Ch(s, r.pos) \in {".", "e", "E"} THEN NotParsed
      ELSE IF neg THEN Parsed(Num(0 - r.v.v), r.pos) ELSE r

\* The position of the quote that closes the string opened before i; 0 if a
\* control character, an escape or the end comes first.
ClosingQuote(s, i) ==
  LET stops == { j \in i..Len(s) : Ch(s, j) \in {"\"", "\n", "\t", "\r", "\\"} }
  IN  IF stops = {} \/ Ch(s, Least(stops \cup {Len(s) + 1})) # "\"" THEN 0
      ELSE Least(stops)

ParseString(s, i) ==
  LET j == ClosingQuote(s, i + 1)
  IN  IF Ch(s, i) # "\"" \/ j = 0 THEN NotParsed
      ELSE Parsed(Str(SubSeq(s, i + 1, j - 1)), j + 1)

RECURSIVE ParseValue(_, _)
RECURSIVE ParseElements(_, _, _)
RECURSIVE ParseMembers(_, _, _)

\* The elements of an array after its '[' or after a ','.
ParseElements(s, i, acc) ==
  LET e == ParseValue(s, i)
      j == SkipSpace(s, e.pos)
  IN  IF ~e.ok THEN NotParsed
      ELSE IF Ch(s, j) = "," THEN ParseElements(s, j + 1, Append(acc, e.v))
      ELSE IF Ch(s, j) = "]" THEN Parsed(List(Append(acc, e.v)), j + 1)
      ELSE NotParsed

\* The members of an object after its '{' or after a ','; a repeated key
\* keeps its last value.
ParseMembers(s, i, acc) ==
  LET k == ParseString(s, SkipSpace(s, i))
      c == SkipSpace(s, k.pos)
      e == ParseValue(s, c + 1)
      j == SkipSpace(s, e.pos)
      more == [n \in DOMAIN acc \cup {k.v.v} |-> IF n = k.v.v THEN e.v ELSE acc[n]]
  IN  IF ~k.ok \/ Ch(s, c) # ":" THEN NotParsed
      ELSE IF ~e.ok THEN NotParsed
      ELSE IF Ch(s, j) = "," THEN ParseMembers(s, j + 1, more)
      ELSE IF Ch(s, j) = "}" THEN Parsed(Obj(more), j + 1)
      ELSE NotParsed

NoMembers == [n \in {} |-> Undef]

ParseValue(s, i) ==
  LET j == SkipSpace(s, i)
      c == Ch(s, j)
  IN  CASE c = "{" ->
             IF Ch(s, SkipSpace(s, j + 1)) = "}"
             THEN Parsed(Obj(NoMembers), SkipSpace(s, j + 1) + 1)
             ELSE ParseMembers(s, j + 1, NoMembers)
        [] c = "[" ->
             IF Ch(s, SkipSpace(s, j + 1)) = "]"
             THEN Parsed(List(<<>>), SkipSpace(s, j + 1) + 1)
             ELSE ParseElements(s, j + 1, <<>>)
        [] c = "\"" -> ParseString(s, j)
        [] c \in Digit \cup {"-"} -> ParseNumber(s, j)
        [] HasAt(s, j, "true") -> Parsed(Bool(TRUE), j + 4)
        [] HasAt(s, j, "false") -> Parsed(Bool(FALSE), j + 5)
        [] HasAt(s, j, "null") -> Parsed(Null, j + 4)
        [] OTHER -> NotParsed

\* JSON.parse(s): the value, or a throw.
JsonParse(s) ==
  LET r == ParseValue(s, 1)
  IN  IF r.ok /\ SkipSpace(s, r.pos) = Len(s) + 1 THEN r ELSE NotParsed

\* cleaned.substring(first, last + 1) with first and last counted from 1;
\* substring swaps its arguments when the second is the smaller.
Slice(s, first, last) ==
  IF last >= first THEN SubSeq(s, first, last) ELSE SubSeq(s, last + 1, first - 1)

\* The Markdown fence of three backquotes.  A backquote cannot be written in
\* a string of this language: the apostrophe stands for it in every text.
Fence == "'''"

\* sanitizeAndParseJSON without its second attempt.
SanitizeAndParseOnce(json) ==
  LET unfenced == RemoveAll(RemoveAll(json, Fence \o "json"), Fence)
      firstBrace == IndexOf(unfenced, "{")
      lastBrace == LastIndexOf(unfenced, "}")
  IN  IF firstBrace = 0 \/ lastBrace = 0 THEN NotParsed
      ELSE JsonParse(Slice(unfenced, firstBrace, lastBrace))

\* sanitizeAndParseJSON: the parsed value, or a throw.
SanitizeAndParse(json) ==
  LET unfenced == RemoveAll(RemoveAll(json, Fence \o "json"), Fence)
      firstBrace == IndexOf(unfenced, "{")
      lastBrace == LastIndexOf(unfenced, "}")
      cleaned == Slice(unfenced, firstBrace, lastBrace)
      strict == JsonParse(cleaned)
  IN  IF firstBrace = 0 \/ lastBrace = 0 THEN NotParsed
      ELSE IF strict.ok THEN strict
      ELSE JsonParse(DropCommasBefore(DropCommasBefore(cleaned, "}"), "]"))

\* -------------------------------------------------------------- feedbackData
MetricNames == {"technical", "communication", "confidence", "clarity",
                "problemSolving"}

\* parsed.metrics?.name
Metric(metrics, name) == Get(metrics, name)

emptyMetrics == [n \in MetricNames |-> Num(0)]

Report(score, summary, strengths, improvements, metrics) ==
  [kind |-> "report", score |-> score, summary |-> summary,
   strengths |-> strengths, improvements |-> improvements, metrics |-> metrics]

\* feedbackData built from a payload that parsed (l. 696-709)
BuildReport(parsed) ==
  Report(IF Get(parsed, "score").k = "number" THEN Get(parsed, "score") ELSE Num(0),
         OrElse(Get(parsed, "summary"), Str("Analysis complete.")),
         IF Get(parsed, "strengths").k = "array" THEN Get(parsed, "strengths")
         ELSE List(<<Str("No specific strengths detected")>>),
         IF Get(parsed, "improvements").k = "array" THEN Get(parsed, "improvements")
         ELSE List(<<Str("No specific improvements detected")>>),
         [n \in MetricNames |-> OrElse(Metric(Get(parsed, "metrics"), n), Num(0))])

emptyData ==
  Report(Num(0),
         Str("No meaningful conversation was recorded. Please check microphone settings."),
         List(<<Str("N/A")>>),
         List(<<Str("Ensure microphone is enabled"), Str("Check network connection")>>),
         emptyMetrics)

invalidFormatData ==
  Report(Num(0),
         Str("The AI analyzed the interview but returned an invalid format."),
         List(<<Str("Analysis Error")>>), List(<<Str("Please try again")>>),
         emptyMetrics)

emergencyData ==
  Report(Num(0), Str("Network or API error during analysis."),
         List(<<Str("N/A")>>), List(<<Str("N/A")>>), emptyMetrics)

\* const jsonText = response.text || "{}"
JsonText(text) == IF text = "" THEN "{}" ELSE text

\* try { parsed ... } catch (parseError) { invalid format }
ReportOf(json) ==
  LET r == SanitizeAndParse(json)
  IN  IF r.ok THEN BuildReport(r.v) ELSE invalidFormatData

\* Texts of the analysis endpoint: valid JSON; the same fenced, with a
\* trailing comma; prose; braces around something that is not JSON; no text;
\* fields of the wrong types.
ScenarioText ==
  Fence \o "json\n{\"score\":82,\"summary\":\"Solid.\",\"strengths\":[\"Clear\"],"
        \o "\"improvements\":[\"Depth\",],\"metrics\":{\"technical\":7}}\n" \o Fence

Responses ==
  { "{\"score\":82,\"summary\":\"Solid.\",\"strengths\":[\"Clear\"],\"improvements\":[\"Depth\"],\"metrics\":{\"technical\":7}}",
    ScenarioText,
    "I cannot analyse this.",
    "{oops}",
    "",
    "{\"score\":\"high\",\"summary\":0,\"strengths\":\"Clear\",\"metrics\":5}" }

\* The members of an object, each "" when left out, joined by commas.
RECURSIVE Join(_)
Join(q) ==
  IF q = <<>> THEN ""
  ELSE IF Head(q) = "" THEN Join(Tail(q))
  ELSE IF Join(Tail(q)) = "" THEN Head(q)
  ELSE Head(q) \o "," \o Join(Tail(q))

ScoreTexts == {"", "\"score\":82", "\"score\":\"high\""}

SummaryTexts == {"", "\"summary\":\"Solid.\"", "\"summary\":\"\""}

StrengthsTexts == {"", "\"strengths\":[\"Clear\"]", "\"strengths\":\"Clear\""}

ImprovementsTexts ==
  {"", "\"improvements\":[\"Depth\",]", "\"improvements\":null"}

MetricsTexts ==
  {"", "\"metrics\":{\"technical\":7}",
   "\"metrics\":{\"technical\":\"high\",\"clarity\":0, }", "\"metrics\":5"}

\* An object as it is, or inside a fence with a line of prose before it.
Wrap(fenced, object) ==
  IF fenced THEN "Here it is:\n" \o Fence \o "json\n" \o object \o "\n" \o Fence
  ELSE object

\* Texts that hold no object, or one that no removal of commas repairs.
BrokenTexts ==
  { "I cannot analyse this.", "{oops}", "} {", "{\"score\":82", "\"score\":82}",
    "{\"score\":82,,}", "{\"score\":82}}", "{\"score\":082}",
    "{\"strengths\":[\"Clear\" \"Depth\"]}", "[82]" }

\* Texts whose last '}' comes before the first '{', and whose string holds a
\* comma before a bracket.
OddTexts ==
  { "} [82] {", "{\"summary\":\"Solid,}\",\"strengths\":[\"Clear\",]}" }

\* Texts whose numbers lie outside the ranges of a report.
OutOfRangeTexts ==
  { "{\"score\":150}", "{\"score\":-5,\"metrics\":{\"clarity\":11}}" }

\* Texts the analysis endpoint can answer with.
Payloads ==
  { Wrap(fenced, "{" \o Join(<<a, b, c, d, e>>) \o "}") :
      fenced \in BOOLEAN, a \in ScoreTexts, b \in SummaryTexts,
      c \in StrengthsTexts, d \in ImprovementsTexts, e \in MetricsTexts }
    \cup BrokenTexts \cup OddTexts \cup OutOfRangeTexts \cup Responses

\* The report of each of these texts.
ReportTable == [text \in Payloads |-> ReportOf(JsonText(text))]

\* setFeedback; setState(FEEDBACK) whatever stateRef holds.
DeliverAlways(w, rendered, report) ==
  [w EXCEPT !.feedback = report, !.state = "FEEDBACK",
            !.reported = @ \cup {w.analysed}]

\* if (stateRef.current === ANALYZING) { setFeedback; setState(FEEDBACK) }
\* stateRef holds the state of the last render.
Deliver(w, rendered, report) ==
  IF rendered = "ANALYZING"
  THEN [w EXCEPT !.feedback = report, !.state = "FEEDBACK",
                 !.reported = @ \cup {w.analysed}]
  ELSE w

\* -------------------------------------------------------- handleEndInterview
\* The transcript whose partial texts are appended as they are, without
\* their "(Final)" labels.
FinalTranscriptUnlabelled(w) ==
  w.fullTranscript \o w.currentInput \o w.currentOutput

FinalTranscript(w) ==
  w.fullTranscript
    \o (IF w.currentInput # "" THEN "\nCandidate (Final): " \o w.currentInput
        ELSE "")
    \o (IF w.currentOutput # "" THEN "\nInterviewer (Final): " \o w.currentOutput
        ELSE "")

MinTranscript == 10

\* handleEndInterview call e after `await stopAllMedia()`, up to its next
\* await.  A missing API key throws inside the try: the catch reads stateRef
\* before the render that follows setState(ANALYZING).
EndAfterStop(e, r) ==
  IF r.at # "end"
  THEN /\ Commit(r.w)
       /\ endPc' = [endPc EXCEPT ![e] = r.at]
  ELSE LET w == [r.w EXCEPT !.state = "ANALYZING",
                            !.analysed = r.w.endOf[e],
                            !.finalTranscript = FinalTranscript(r.w),
                            !.jsonText[e] = ""]
       IN  IF Len(FinalTranscript(r.w)) < MinTranscript
           THEN /\ Commit(w)
                /\ endPc' = [endPc EXCEPT ![e] = "short"]
           ELSE IF ~apiKey
           THEN /\ Commit(Deliver(w, state, emergencyData))
                /\ endPc' = [endPc EXCEPT ![e] = "idle"]
           ELSE /\ Commit(w)
                /\ endPc' = [endPc EXCEPT ![e] = "remote"]

\* The call that a click starts: the first one not in progress.
FreeEnd(e) == endPc[e] = "idle" /\ \A d \in Ends : d < e => endPc[d] # "idle"

\* "End Interview" (ACTIVE, countdown over) and the Error view's "Analyze
\* Session" (shown when there is transcript to analyse).  The button stays
\* until the call has passed `await stopAllMedia()`: it can be clicked again.
EndClick ==
  /\ \/ state = "ACTIVE" /\ ~showCountdown
     \/ state = "ERROR" /\ (Len(transcripts) > 0 \/ currentInput # ""
                            \/ currentOutput # "")
  /\ \E e \in Ends :
       /\ FreeEnd(e)
       /\ EndAfterStop(e, StopBegin([World EXCEPT !.endOf[e] = serial]))
  /\ UNCHANGED <<tok, apiKey, startPc, stopPc, resetPc, msgs, completions, faults>>
  /\ Click

EndStopResume(e) ==
  /\ endPc[e] \in {"stopIn", "stopOut"}
  /\ EndAfterStop(e, StopResume(World, endPc[e]))
  /\ UNCHANGED <<tok, apiKey, startPc, stopPc, resetPc, msgs, completions, clicks, faults>>

\* The awaits of stopAllMedia are local and settle within milliseconds; the
\* analysis takes 2000 ms or a remote round trip.  A call made in the same
\* session has left stopAllMedia before the analysis of another returns.
StopsSettled(e) ==
  \A d \in Ends : endOf[d] = endOf[e] => endPc[d] \notin {"stopIn", "stopOut"}

\* The 2000 ms timer of the short-transcript path.
EndShortTimer(e) ==
  /\ endPc[e] = "short"
  /\ StopsSettled(e)
  /\ Commit(Deliver(World, state, emptyData))
  /\ endPc' = [endPc EXCEPT ![e] = "idle"]
  /\ UNCHANGED <<tok, apiKey, startPc, stopPc, resetPc, msgs, completions, clicks, faults>>

\* generateContent resolved with response p.
EndRemoteDone(e, p) ==
  /\ endPc[e] = "remote"
  /\ StopsSettled(e)
  /\ Commit(Deliver([World EXCEPT !.jsonText[e] = JsonText(p)], state,
                    ReportTable[p]))
  /\ endPc' = [endPc EXCEPT ![e] = "idle"]
  /\ UNCHANGED <<tok, apiKey, startPc, stopPc, resetPc, msgs, completions, clicks, faults>>

\* generateContent rejected: the outer catch.
EndRemoteFailed(e) ==
  /\ endPc[e] = "remote"
  /\ StopsSettled(e)
  /\ Commit(Deliver(World, state, emergencyData))
  /\ endPc' = [endPc EXCEPT ![e] = "idle"]
  /\ UNCHANGED <<tok, apiKey, startPc, stopPc, resetPc, msgs, completions, clicks, faults>>


\* ------------------------------------------------------------ the setup form
\* SetupForm (src/components/SetupForm.tsx).  The fields of a configuration
\* are JavaScript values.
Roles == {"Software Engineer", "Product Manager"}

Personas == {"Friendly Recruiter", "Strict Technical Lead"}

Contexts == {"", "Backend role"}

\* Texts extractTextFromPDF returns: one shorter than MinResume, one not.
ScannedResume == "Page 1"

TypedResume == "Ten years of backend engineering at two payment firms."

ResumeTexts == {ScannedResume, TypedResume}

\* if (text.length < 50)                                   (SetupForm.tsx l. 75)
MinResume == 50

Config(type, persona, context, resumeText, gestures) ==
  [type |-> Str(type), persona |-> Str(persona), context |-> Str(context),
   resumeText |-> Str(resumeText), enableGestures |-> Bool(gestures)]

Configs ==
  { Config(t, p, c, r, g) :
      t \in Roles, p \in Personas, c \in Contexts,
      r \in {"", TypedResume}, g \in BOOLEAN }

\* useState<InterviewConfig>({...})
initialConfig == Config("Software Engineer", "Friendly Recruiter", "", "", FALSE)

\* The members of an object, in the order of its keys.
Member(name, value) == [name |-> name, value |-> value]

\* The mutant of PersistentConfig: the configuration as it is.
WholeConfig(c) ==
  << Member("type", c.type), Member("persona", c.persona),
     Member("context", c.context), Member("resumeText", c.resumeText),
     Member("enableGestures", c.enableGestures) >>

\* const { resumeText, ...persistentConfig } = config
PersistentConfig(c) ==
  << Member("type", c.type), Member("persona", c.persona),
     Member("context", c.context),
     Member("enableGestures", c.enableGestures) >>

\* JSON.stringify of a string without characters to escape, and of a boolean
StringifyValue(x) ==
  IF x.k = "string" THEN "\"" \o x.v \o "\""
  ELSE IF x.v THEN "true" ELSE "false"

RECURSIVE StringifyMembers(_)
StringifyMembers(q) ==
  IF q = <<>> THEN ""
  ELSE "\"" \o Head(q).name \o "\":" \o StringifyValue(Head(q).value)
       \o (IF Len(q) > 1 THEN "," ELSE "") \o StringifyMembers(Tail(q))

\* JSON.stringify of an object of strings and booleans
JsonStringify(q) == "{" \o StringifyMembers(q) \o "}"

\* localStorage.getItem(STORAGE_KEY): null, or the text stored
NoItem == [present |-> FALSE, text |-> ""]
Item(text) == [present |-> TRUE, text |-> text]

\* The texts an item can hold, and JSON.parse of each.
ItemTexts ==
  { JsonStringify(PersistentConfig(c)) : c \in Configs }
    \cup { JsonStringify(WholeConfig(c)) : c \in Configs }

ParsedItem == [text \in ItemTexts |-> JsonParse(text)]

\* A setConfig call: with an object ("set": the configuration it replaces the
\* state by), or with a function of the previous state ("load", "toggle",
\* "resume").
Update(op, cfg, text) == [op |-> op, cfg |-> cfg, text |-> text]

ApplyUpdate(prev, u) ==
  CASE u.op = "set" -> u.cfg
    [] u.op = "load" ->
         [prev EXCEPT !.type = u.cfg.type, !.persona = u.cfg.persona,
                      !.context = u.cfg.context,
                      !.enableGestures = u.cfg.enableGestures,
                      !.resumeText = Str("")]
    [] u.op = "toggle" -> [prev EXCEPT !.enableGestures = Bool(~@.v)]
    [] u.op = "resume" -> [prev EXCEPT !.resumeText = Str(u.text)]

RECURSIVE ApplyUpdates(_, _)
ApplyUpdates(prev, q) ==
  IF q = <<>> THEN prev ELSE ApplyUpdates(ApplyUpdate(prev, Head(q)), Tail(q))

\* The load effect: the setConfig call it makes, if any.
LoadSaved(item) ==
  LET parsed == ParsedItem[item.text]
  IN  IF item.present /\ parsed.ok
         /\ Truthy(Get(parsed.v, "type")) /\ Truthy(Get(parsed.v, "persona"))
      THEN << Update("load",
                [type |-> Get(parsed.v, "type"),
                 persona |-> Get(parsed.v, "persona"),
                 context |-> OrElse(Get(parsed.v, "context"), Str("")),
                 resumeText |-> Str(""),
                 enableGestures |->
                   OrElse(Get(parsed.v, "enableGestures"), Bool(FALSE))],
                "") >>
      ELSE <<>>

\* The save effect; setItem can throw (quota, storage disabled), which is
\* caught and logged.
SaveConfig(w, stored) ==
  IF stored
  THEN [w EXCEPT !.storage = Item(JsonStringify(PersistentConfig(w.config)))]
  ELSE w

\* The form is mounted (the application is IDLE): first render with the
\* initial state, then the load effect and the save effect.
FormMounted(stored) ==
  /\ state = "IDLE"
  /\ ~mounted
  /\ Commit(SaveConfig([World EXCEPT !.mounted = TRUE,
                                     !.config = initialConfig,
                                     !.updates = LoadSaved(storage)], stored))
  /\ UNCHANGED <<tok, tasks, msgs, completions, clicks, faults>>

\* The pending setConfig calls are rendered; config has changed, so the save
\* effect runs.
FormRendered(stored) ==
  /\ mounted
  /\ updates # <<>>
  /\ Commit(SaveConfig([World EXCEPT !.config = ApplyUpdates(config, updates),
                                     !.updates = <<>>], stored))
  /\ UNCHANGED <<tok, tasks, msgs, completions, clicks, faults>>

SetConfig(u) ==
  /\ mounted
  /\ Len(updates) < MaxUpdates
  /\ Commit([World EXCEPT !.updates = Append(@, u)])
  /\ UNCHANGED <<tok, tasks, msgs, completions, clicks, faults>>

\* onChange of the role and of the context, onClick of a persona:
\* setConfig({ ...config, [name]: value })
FormEdit(name, value) ==
  /\ \/ name = "type" /\ value \in Roles
     \/ name = "persona" /\ value \in Personas
     \/ name = "context" /\ value \in Contexts
  /\ SetConfig(Update("set", [config EXCEPT ![name] = Str(value)], ""))

\* onClick of the gesture toggle
ToggleGestures ==
  /\ mounted
  /\ SetConfig(Update("toggle", initialConfig, ""))

\* handleFileChange after extractTextFromPDF
ResumeExtracted(text) ==
  IF Len(text) < MinResume
  THEN /\ mounted
       /\ UNCHANGED vars
  ELSE SetConfig(Update("resume", initialConfig, text))

\* removeResume
RemoveResume ==
  /\ mounted
  /\ SetConfig(Update("resume", initialConfig, ""))

\* The form is unmounted (a session starts) or the page is reloaded: its
\* state is discarded.
FormUnmounted ==
  /\ mounted
  /\ Commit([World EXCEPT !.mounted = FALSE, !.updates = <<>>,
                          !.config = initialConfig])
  /\ UNCHANGED <<tok, tasks, msgs, completions, clicks, faults>>

\* ------------------------------------------------------- the whole controller
Msg(outText, inText, turnComplete, interrupted, audio) ==
  [outText |-> outText, inText |-> inText, turnComplete |-> turnComplete,
   interrupted |-> interrupted, audio |-> audio]

InitWith(gestures) ==
  /\ state = "IDLE"
  /\ error = ""
  /\ showCountdown = FALSE
  /\ feedback = [kind |-> "null"]
  /\ tokenUsage = 0
  /\ transcripts = <<>>
  /\ currentSessionId = 0
  /\ now = 0
  /\ nextStartTime = 0
  /\ sources = {}
  /\ currentInput = ""
  /\ currentOutput = ""
  /\ fullTranscript = ""
  /\ streamRef = 0
  /\ processorRef = 0
  /\ activeSessionRef = 0
  /\ audioContextRef = 0
  /\ outputAudioContextRef = 0
  /\ mic = [a \in Attempts |-> "off"]
  /\ inCtx = [a \in Attempts |-> "off"]
  /\ outCtx = [a \in Attempts |-> "off"]
  /\ outClock = [a \in Attempts |-> 0]
  /\ chan = [a \in Attempts |-> "off"]
  /\ tok = [a \in Attempts |-> 0]
  /\ apiKey \in BOOLEAN
  /\ startPc = [a \in Attempts |-> "idle"]
  /\ stopPc = [a \in Attempts |-> "off"]
  /\ endPc = [e \in Ends |-> "idle"]
  /\ resetPc = "idle"
  /\ decodes = <<>>
  /\ timeline = <<>>
  /\ armed = [a \in Attempts |-> 0]
  /\ finalTranscript = ""
  /\ jsonText = [e \in Ends |-> ""]
  /\ serial = 0
  /\ endOf = [e \in Ends |-> 0]
  /\ analysed = 0
  /\ reported = {}
  /\ resetDuring = {}
  /\ sampleRate = targetSampleRate
  /\ inputData = <<>>
  /\ finalData = <<>>
  /\ enableGestures = gestures
  /\ videoStreamRef = 0
  /\ cam = [a \in Attempts |-> "off"]
  /\ config = initialConfig
  /\ updates = <<>>
  /\ storage = NoItem
  /\ mounted = FALSE
  /\ processor = [a \in Attempts |-> "off"]
  /\ onaudioprocess = [a \in Attempts |-> 0]
  /\ settled = [a \in Attempts |-> FALSE]
  /\ queued = [a \in Attempts |-> 0]
  /\ sent = [a \in Attempts |-> 0]
  /\ lapsed = {}
  /\ msgs = 0
  /\ completions = 0
  /\ clicks = 0
  /\ faults = 0

\* The application as mounted, with the form's gesture toggle off.
Init == InitWith(FALSE)

\* ------------------------------------------------------- the specifications
\* The lifecycle of the controller: clicks, the steps of startInterview,
\* handleEndInterview, handleHardReset and stopAllMedia, channel events.
Control ==
  \/ \E a \in Attempts, online \in BOOLEAN : StartClick(a, online)
  \/ \E a \in Attempts : StartStopResume(a)
  \/ \E a \in Attempts, t \in 1..MaxStarts, suspended \in BOOLEAN :
        StartAfterCooldown(a, t, suspended)
  \/ \E a \in Attempts : StartResumed(a)
  \/ \E a \in Attempts : StartMicGranted(a)
  \/ \E a \in Attempts : StartMicDenied(a)
  \/ \E a \in Attempts : StartMicAttachFailed(a)
  \/ \E a \in Attempts : OnOpen(a)
  \/ \E a \in Attempts : ConnectResolved(a)
  \/ \E a \in Attempts : OnClose(a)
  \/ \E a \in Attempts, kind \in {"network", "permission", "other"} : OnError(a, kind)
  \/ \E a \in Attempts : BackgroundStopResume(a)
  \/ LogoClick
  \/ StartNewSessionClick
  \/ ReportResetClick
  \/ CountdownComplete
  \/ HardResetClick
  \/ HardResetResume
  \/ EndClick
  \/ \E e \in Ends : EndStopResume(e)
  \/ \E e \in Ends : EndShortTimer(e)

Next == Control

Spec == Init /\ [][Next]_vars

\* A session in progress: the state Spec reaches by StartClick(1, TRUE),
\* StartAfterCooldown(1, 1, FALSE), StartMicGranted(1), OnOpen(1),
\* ConnectResolved(1), CountdownComplete.
InSessionAt(rate) ==
  /\ state = "ACTIVE"
  /\ error = ""
  /\ showCountdown = FALSE
  /\ feedback = [kind |-> "null"]
  /\ tokenUsage = 0
  /\ transcripts = <<>>
  /\ currentSessionId = 1
  /\ now = 1
  /\ nextStartTime = 0
  /\ sources = {SilenceIn(1), SilenceOut(1)}
  /\ currentInput = ""
  /\ currentOutput = ""
  /\ fullTranscript = ""
  /\ streamRef = 1
  /\ processorRef = 1
  /\ activeSessionRef = 1
  /\ audioContextRef = 1
  /\ outputAudioContextRef = 1
  /\ mic = [a \in Attempts |-> IF a = 1 THEN "live" ELSE "off"]
  /\ inCtx = [a \in Attempts |-> IF a = 1 THEN "running" ELSE "off"]
  /\ outCtx = [a \in Attempts |-> IF a = 1 THEN "running" ELSE "off"]
  /\ outClock = [a \in Attempts |-> 0]
  /\ chan = [a \in Attempts |-> IF a = 1 THEN "open" ELSE "off"]
  /\ tok = [a \in Attempts |-> IF a = 1 THEN 1 ELSE 0]
  /\ apiKey = TRUE
  /\ startPc = [a \in Attempts |-> IF a = 1 THEN "done" ELSE "idle"]
  /\ stopPc = [a \in Attempts |-> "off"]
  /\ endPc = [e \in Ends |-> "idle"]
  /\ resetPc = "idle"
  /\ decodes = <<>>
  /\ timeline = <<>>
  /\ armed = [a \in Attempts |-> 0]
  /\ finalTranscript = ""
  /\ jsonText = [e \in Ends |-> ""]
  /\ serial = 1
  /\ endOf = [e \in Ends |-> 0]
  /\ analysed = 0
  /\ reported = {}
  /\ resetDuring = {}
  /\ sampleRate = rate
  /\ inputData = <<>>
  /\ finalData = <<>>
  /\ enableGestures = FALSE
  /\ videoStreamRef = 0
  /\ cam = [a \in Attempts |-> "off"]
  /\ config = initialConfig
  /\ updates = <<>>
  /\ storage = NoItem
  /\ mounted = FALSE
  /\ processor = [a \in Attempts |-> IF a = 1 THEN "on" ELSE "off"]
  /\ onaudioprocess = [a \in Attempts |-> IF a = 1 THEN 1 ELSE 0]
  /\ settled = [a \in Attempts |-> a = 1]
  /\ queued = [a \in Attempts |-> 0]
  /\ sent = [a \in Attempts |-> 0]
  /\ lapsed = {}
  /\ msgs = 0
  /\ completions = 0
  /\ clicks = 1
  /\ faults = 0

InSession == InSessionAt(targetSampleRate)

\* Messages of a session that is ended: a whole short turn, an audio chunk.
ControlMsgs ==
  { Msg("", "a", TRUE, FALSE, 0), Msg("", "", FALSE, FALSE, 1) }

\* A session from its first message to its report.
LiveNext ==
  \/ Control /\ clicks' <= TalkClicks
  \/ \E a \in Attempts, m \in ControlMsgs : OnMessage(a, m)
  \/ \E i \in 1..MaxPending : DecodeDone(i)
  \/ \E e \in Ends, p \in Responses : EndRemoteDone(e, p)
  \/ \E e \in Ends : EndRemoteFailed(e)

LiveSpec == InSession /\ [][LiveNext]_vars

\* Messages of a conversation: a whole short turn of the candidate, a partial
\* text of the model.
TalkMsgs ==
  { Msg("", "a", TRUE, FALSE, 0), Msg("b", "", FALSE, FALSE, 0) }

\* A conversation from its first message to its report, with everything the
\* user and the environment can do meanwhile.
TalkNext ==
  \/ Control /\ clicks' <= TalkClicks
  \/ \E a \in Attempts, m \in TalkMsgs : OnMessage(a, m)
  \/ \E e \in Ends, p \in Responses : EndRemoteDone(e, p)
  \/ \E e \in Ends : EndRemoteFailed(e)

TalkSpec == InSession /\ [][TalkNext]_vars

\* The analysis of a conversation, over the texts the endpoint can answer.
ParseNext ==
  \/ \E a \in Attempts, m \in TalkMsgs : msgs = 0 /\ OnMessage(a, m)
  \/ (\A e \in Ends : endPc[e] = "idle") /\ EndClick
  \/ \E e \in Ends : EndStopResume(e)
  \/ \E e \in Ends : EndShortTimer(e)
  \/ \E e \in Ends, p \in Payloads : EndRemoteDone(e, p)
  \/ \E e \in Ends : EndRemoteFailed(e)

ParseSpec == InSession /\ [][ParseNext]_vars

\* One session after another: a conversation, its end, a reset, the next
\* session and its end, while the analysis of the first is on its way.
HandoverNext ==
  \/ \E a \in Attempts, m \in TalkMsgs : msgs = 0 /\ OnMessage(a, m)
  \/ EndClick
  \/ \E e \in Ends : EndStopResume(e)
  \/ \E e \in Ends : EndShortTimer(e)
  \/ \E e \in Ends, p \in Responses : EndRemoteDone(e, p)
  \/ \E e \in Ends : EndRemoteFailed(e)
  \/ HardResetClick
  \/ HardResetResume
  \/ \E a \in Attempts : StartClick(a, TRUE)
  \/ \E a \in Attempts, t \in 1..MaxStarts, suspended \in BOOLEAN :
        StartAfterCooldown(a, t, suspended)
  \/ \E a \in Attempts : StartResumed(a)
  \/ \E a \in Attempts : StartMicGranted(a)
  \/ \E a \in Attempts : OnOpen(a)
  \/ \E a \in Attempts : ConnectResolved(a)
  \/ CountdownComplete

HandoverSpec == InSession /\ [][HandoverNext]_vars

\* Sessions started with the form's gesture toggle on or off: the start,
\* the camera, the microphone and the channel's opening.
GestureNext ==
  \/ \E a \in Attempts : StartClick(a, TRUE)
  \/ \E a \in Attempts, t \in 1..MaxStarts, suspended \in BOOLEAN :
        StartAfterCooldown(a, t, suspended)
  \/ \E a \in Attempts : StartResumed(a)
  \/ \E a \in Attempts : StartMicGranted(a)
  \/ \E a \in Attempts : StartMicDenied(a)
  \/ \E a \in Attempts : OnOpen(a)
  \/ \E a \in Attempts : ConnectResolved(a)
  \/ \E a \in Attempts : BackgroundStopResume(a)
  \/ CountdownComplete
  \/ \E a \in Attempts : CameraGranted(a)
  \/ \E a \in Attempts : CameraDenied(a)
  \/ \E a \in Attempts : OnLoadedData(a)

GestureSpec == (\E gestures \in BOOLEAN : InitWith(gestures)) /\ [][GestureNext]_vars

\* Starts and resets: the start of a session with the resets that can fall
\* into it.
ResetNext ==
  \/ \E a \in Attempts : StartClick(a, TRUE)
  \/ \E a \in Attempts : StartStopResume(a)
  \/ \E a \in Attempts, t \in 1..MaxStarts, suspended \in BOOLEAN :
        StartAfterCooldown(a, t, suspended)
  \/ \E a \in Attempts : StartResumed(a)
  \/ \E a \in Attempts : StartMicGranted(a)
  \/ \E a \in Attempts : StartMicDenied(a)
  \/ \E a \in Attempts : OnOpen(a)
  \/ \E a \in Attempts : ConnectResolved(a)
  \/ \E a \in Attempts : BackgroundStopResume(a)
  \/ CountdownComplete
  \/ HardResetObserved
  \/ HardResetResume

ResetSpec == Init /\ [][ResetNext]_vars

\* Audio chunks in decodeAudioData while the session is reset and the next
\* one starts.
StaleMsgs == { Msg("", "", FALSE, FALSE, d) : d \in 1..MaxDur }

StaleNext ==
  \/ \E a \in Attempts, m \in StaleMsgs : OnMessage(a, m)
  \/ \E i \in 1..MaxPending : DecodeDone(i)
  \/ HardResetClick
  \/ HardResetResume
  \/ \E a \in Attempts : StartClick(a, TRUE)
  \/ \E a \in Attempts, t \in 1..MaxStarts, suspended \in BOOLEAN :
        StartAfterCooldown(a, t, suspended)
  \/ \E a \in Attempts : StartResumed(a)
  \/ \E a \in Attempts : StartMicGranted(a)
  \/ \E a \in Attempts : OnOpen(a)
  \/ \E a \in Attempts : ConnectResolved(a)
  \/ CountdownComplete

StaleSpec == InSession /\ [][StaleNext]_vars

\* The setup form: edits, resume uploads, renders and reloads.
FormNext ==
  \/ \E stored \in BOOLEAN : FormMounted(stored)
  \/ \E stored \in BOOLEAN : FormRendered(stored)
  \/ \E name \in {"type", "persona", "context"},
        value \in Roles \cup Personas \cup Contexts : FormEdit(name, value)
  \/ ToggleGestures
  \/ \E text \in ResumeTexts : ResumeExtracted(text)
  \/ RemoveResume
  \/ FormUnmounted

FormSpec == Init /\ [][FormNext]_vars

\* Capture in one session, at each rate a device can give.
CaptureNext == \E a \in Attempts, data \in Blocks : OnAudioProcess(a, data)

CaptureSpec == (\E rate \in Rates : InSessionAt(rate)) /\ [][CaptureNext]_vars

\* Sessions started, reset and started again while the processors capture
\* and the channels connect.
SendNext ==
  \/ \E a \in Attempts : StartClick(a, TRUE)
  \/ \E a \in Attempts, t \in 1..MaxStarts : StartAfterCooldown(a, t, FALSE)
  \/ \E a \in Attempts : StartMicGranted(a)
  \/ \E a \in Attempts : OnOpen(a)
  \/ \E a \in Attempts : ConnectResolved(a)
  \/ \E a \in Attempts : OnClose(a)
  \/ HardResetClick
  \/ HardResetResume
  \/ \E p \in Attempts : OnAudioProcess(p, <<1>>)

SendSpec == Init /\ [][SendNext]_vars

\* Text of the k-th turn of a session: the turn's number, so that a
\* character of the transcript tells the turn it was sent in.
Digits == "123456789"
TurnText(k) == SubSeq(Digits, k, k)

\* Messages of the turn that is open after k completion events: partial
\* texts (none, the turn's text, white space) and the two flags.
TurnMsgs(k) ==
  { Msg(o, i, tc, int, 0) :
      o \in {"", TurnText(k + 1)}, i \in {"", TurnText(k + 1), " "},
      tc \in BOOLEAN, int \in BOOLEAN }

\* The turns of one session.
TurnNext == \E m \in TurnMsgs(completions) : OnMessage(1, m)

TurnSpec == InSession /\ [][TurnNext]_vars

\* Messages of the playback path: audio chunks, interruptions, some text.
PlayMsgs ==
  { Msg("", i, FALSE, int, d) :
      i \in {"", "1", " "}, int \in BOOLEAN, d \in 0..MaxDur }

\* Playback in one session.
PlayNext ==
  \/ \E m \in PlayMsgs : OnMessage(1, m)
  \/ \E i \in 1..MaxPending : DecodeDone(i)
  \/ \E i \in 1..MaxPending : DecodeFail(i)
  \/ \E n \in sources : SourceEnded(n)
  \/ \E t \in Instants : Tick(1, t)

PlaySpec == InSession /\ [][PlayNext]_vars

\* ------------------------------------------------------------------ claims
\* s holds a character other than white space.
NonBlank(s) == \E i \in 1..Len(s) : SubSeq(s, i, i) # " "

\* The least k with k >= n / 3.5.
Ceil3_5(n) == CHOOSE k \in 0..n : 7 * k >= 2 * n /\ 7 * (k - 1) < 2 * n

Turn(input, output) ==
  <<[role |-> "user", text |-> input], [role |-> "model", text |-> output]>>

\* C2.  Gapless-no-overlap: of the buffers scheduled since the cursor was last
\* reset, the first starts at the clock of its scheduling, each next one
\* starts at the larger of the end of the one before and the clock of its own
\* scheduling (so never before that end, and exactly at it when the clock has
\* not passed it), and the cursor is the end of the last.
GaplessNoOverlap ==
  /\ \A i \in 1..Len(timeline) :
       LET b == timeline[i]
       IN  IF i = 1 THEN b.start = b.clock
           ELSE LET end == timeline[i - 1].start + timeline[i - 1].dur
                IN  /\ b.start = Max(end, b.clock)
                    /\ b.start >= end
                    /\ b.clock <= end => b.start = end
  /\ Len(timeline) > 0 =>
       nextStartTime = timeline[Len(timeline)].start + timeline[Len(timeline)].dur

\* Two buffers of 0.5 s scheduled at clock 10.0 start at 10.0 and 10.5 and
\* leave the cursor at 11.0.
GaplessScenario ==
  /\ timeline = <<[start |-> 20, dur |-> 1, clock |-> 20, seq |-> 1],
                  [start |-> 21, dur |-> 1, clock |-> 20, seq |-> 2]>>
  /\ nextStartTime = 22

\* The turn a character of text was sent in, 0 for a character of the format.
TurnOf(c) ==
  CASE c = "1" -> 1 [] c = "2" -> 2 [] c = "3" -> 3 [] c = "4" -> 4 [] c = "5" -> 5
    [] c = "6" -> 6 [] c = "7" -> 7 [] c = "8" -> 8 [] c = "9" -> 9 [] OTHER -> 0

\* The turns of the characters of s, in order, the format left out.
TurnsAlong(s) ==
  LET all == [i \in 1..Len(s) |-> TurnOf(SubSeq(s, i, i))]
  IN  SelectSeq(all, LAMBDA k : k > 0)

TurnsOf(s) == {TurnsAlong(s)[i] : i \in 1..Len(TurnsAlong(s))}

\* The text of every turn that fullTranscript and the accumulators hold.
Held == TurnsAlong(fullTranscript \o currentInput \o currentOutput)

\* The text of earlier turns comes before the text of later turns.
InTurnOrder(s) ==
  LET q == TurnsAlong(s)
  IN  \A i \in 1..(Len(q) - 1) : q[i] <= q[i + 1]

\* The j-th committed turn holds the text of one turn only.
TurnsOfCommitted(j) ==
  TurnsOf(transcripts[2 * j - 1].text \o transcripts[2 * j].text)

TurnsInOrder ==
  /\ InTurnOrder(fullTranscript)
  /\ \A j \in 1..(Len(transcripts) \div 2) :
       /\ Cardinality(TurnsOfCommitted(j)) = 1
       /\ \A h \in 1..(j - 1) :
            \A x \in TurnsOfCommitted(h), y \in TurnsOfCommitted(j) : x < y
  /\ TurnsOf(currentInput \o currentOutput) \subseteq {completions + 1}
  /\ TurnsOf(fullTranscript) \subseteq 1..completions

\* A handler step appends to what is committed and loses no text: the text
\* held before the step is still held after it, in the same order.
CommitsAppend ==
  /\ Len(Held') >= Len(Held)
  /\ SubSeq(Held', 1, Len(Held)) = Held
  /\ Len(fullTranscript') >= Len(fullTranscript)
  /\ SubSeq(fullTranscript', 1, Len(fullTranscript)) = fullTranscript
  /\ Len(transcripts') >= Len(transcripts)
  /\ SubSeq(transcripts', 1, Len(transcripts)) = transcripts

\* C3.  Turn ordering: committed turns follow the order of their completion
\* events, each committed turn holds the text of one turn, the transcript
\* holds the text of a turn before the text of any later turn, text sent
\* after a completion event is in no turn committed by then, and commits
\* only append.
TurnOrdering == []TurnsInOrder /\ [][CommitsAppend]_vars

TwoTurnsCommitted ==
  /\ Len(transcripts) = 4
  /\ transcripts[1].text = "1"
  /\ transcripts[3].text = "2"
  /\ fullTranscript = TurnLine("1", "") \o TurnLine("2", "")

\* What a message of the current session finds in the accumulators once its
\* own partial texts are appended.
InputWith(m) == currentInput \o m.inText
OutputWith(m) == currentOutput \o m.outText

\* A message with the turn-complete flag alone, handled for the current session.
TurnCompleteStep(m) ==
  /\ m.turnComplete
  /\ ~m.interrupted
  /\ currentSessionId = tok[1]
  /\ OnMessage(1, m)

\* The commit of the turn-complete event.
TurnCommitted(m) ==
  /\ transcripts' = transcripts \o Turn(InputWith(m), OutputWith(m))
  /\ fullTranscript' = fullTranscript \o "Candidate: " \o InputWith(m)
                         \o "\nInterviewer: " \o OutputWith(m) \o "\n"
  /\ tokenUsage' = tokenUsage + Ceil3_5(Len(InputWith(m)) + Len(OutputWith(m)))

NothingCommitted ==
  /\ transcripts' = transcripts
  /\ fullTranscript' = fullTranscript
  /\ tokenUsage' = tokenUsage

AccumulatorsCleared == currentInput' = "" /\ currentOutput' = ""

\* C8 as stated: a turn is committed when either accumulator is non-empty,
\* and nothing is committed when both are empty.
TurnCompleteWhenNonEmpty ==
  [][\A m \in TurnMsgs(completions) :
       TurnCompleteStep(m) =>
         IF InputWith(m) # "" \/ OutputWith(m) # ""
         THEN TurnCommitted(m) /\ AccumulatorsCleared
         ELSE NothingCommitted]_vars

\* C8.  On a turn-complete event of the current session, if either
\* accumulator holds a character other than white space, one turn (candidate
\* text, model text) is committed, its line is appended to the transcript and
\* the token estimate grows by ceil((len(candidate)+len(model))/3.5);
\* otherwise nothing is committed; both accumulators are cleared either way.
TurnCompleteWhenNonBlank ==
  [][\A m \in TurnMsgs(completions) :
       TurnCompleteStep(m) =>
         /\ IF NonBlank(InputWith(m)) \/ NonBlank(OutputWith(m))
            THEN TurnCommitted(m)
            ELSE NothingCommitted
         /\ AccumulatorsCleared]_vars

\* A turn of two characters was committed by a turn-complete event.
TurnCompleteSeen ==
  /\ transcripts = Turn("1", "1")
  /\ fullTranscript = TurnLine("1", "1")
  /\ tokenUsage = 1
  /\ currentInput = ""
  /\ currentOutput = ""
  /\ completions = 1

\* A message with the interrupted flag alone, handled for the current session.
InterruptedStep(m) ==
  /\ m.interrupted
  /\ ~m.turnComplete
  /\ currentSessionId = tok[1]
  /\ OnMessage(1, m)

\* C9 as stated: an interrupted event leaves the committed turns, the
\* transcript, the token estimate and the accumulators as the turn-complete
\* event would, the committed model text and its transcript line carrying the
\* marker, and the sources are stopped in the same step.
InterruptedLikeTurnComplete ==
  [][\A m \in TurnMsgs(completions) :
       InterruptedStep(m) =>
         LET w == TurnComplete(AppendText(World, m))
             n == Len(w.transcripts)
         IN  /\ Len(transcripts') = n
             /\ \A i \in 1..n :
                  /\ transcripts'[i].role = w.transcripts[i].role
                  /\ transcripts'[i].text =
                       IF i = n /\ n > Len(transcripts)
                       THEN w.transcripts[i].text \o InterruptMarker
                       ELSE w.transcripts[i].text
             /\ n > Len(transcripts) =>
                  fullTranscript' = fullTranscript
                     \o TurnLine(InputWith(m), OutputWith(m) \o InterruptMarker)
             /\ n = Len(transcripts) => fullTranscript' = fullTranscript
             /\ tokenUsage' = w.tokenUsage
             /\ currentInput' = w.currentInput
             /\ currentOutput' = w.currentOutput
             /\ sources' = {}]_vars

\* An interrupted event handled for the current session, on the playback path.
InterruptAllStep(m) ==
  /\ m.interrupted
  /\ currentSessionId = tok[1]
  /\ OnMessage(1, m)

InterruptedTurnCommitted(m) ==
  /\ transcripts' = transcripts \o Turn(InputWith(m), OutputWith(m) \o InterruptMarker)
  /\ fullTranscript' = fullTranscript \o "Candidate: " \o InputWith(m)
                         \o "\nInterviewer: " \o OutputWith(m) \o InterruptMarker
                         \o "\n"
  /\ AccumulatorsCleared

EventOf(a) ==
  \/ StartResumed(a)
  \/ StartMicGranted(a)
  \/ StartMicDenied(a)
  \/ StartMicAttachFailed(a)
  \/ OnOpen(a)
  \/ ConnectResolved(a)
  \/ OnClose(a)
  \/ \E kind \in {"network", "permission", "other"} : OnError(a, kind)
  \/ \E m \in ControlMsgs : OnMessage(a, m)

\* The controller state the token protects.
guarded ==
  <<state, error, currentInput, currentOutput, fullTranscript, transcripts,
    nextStartTime, sources, feedback>>

\* C1.  Token exclusivity: an event that carries a token which is no longer
\* the current one changes nothing of the lifecycle state, the error message,
\* the accumulators, the transcript, the committed turns, the cursor, the
\* active set and the report.
TokenExclusivity ==
  [][\A a \in Attempts :
       (tok[a] # 0 /\ currentSessionId # tok[a] /\ EventOf(a))
         => UNCHANGED guarded]_vars

\* A step of handleHardReset.
HardResetStep == HardResetClick \/ HardResetResume

\* C4.  Lifecycle state machine: the lifecycle state changes along the edges
\* Idle->Connecting, Connecting->Active, Active->Analyzing,
\* Analyzing->Feedback, any->Error, Error->Idle, Feedback->Idle, and
\* any->Idle in a step of hardReset, and along no other.
LifecycleEdges ==
  [][state' # state =>
       \/ state = "IDLE" /\ state' = "CONNECTING"
       \/ state = "CONNECTING" /\ state' = "ACTIVE"
       \/ state = "ACTIVE" /\ state' = "ANALYZING"
       \/ state = "ANALYZING" /\ state' = "FEEDBACK"
       \/ state' = "ERROR"
       \/ state \in {"ERROR", "FEEDBACK"} /\ state' = "IDLE"
       \/ state' = "IDLE" /\ HardResetStep]_vars

\* Everything handleHardReset is to leave behind.
AllReleased ==
  /\ state = "IDLE"
  /\ currentSessionId = 0
  /\ \A a \in Attempts :
       /\ mic[a] = "off"
       /\ chan[a] \notin {"connecting", "open"}
       /\ inCtx[a] = "off"
       /\ outCtx[a] = "off"
  /\ streamRef = 0 /\ processorRef = 0 /\ activeSessionRef = 0
  /\ audioContextRef = 0 /\ outputAudioContextRef = 0
  /\ sources = {}
  /\ nextStartTime = 0
  /\ currentInput = "" /\ currentOutput = "" /\ fullTranscript = ""
  /\ transcripts = <<>>
  /\ feedback = [kind |-> "null"]
  /\ error = ""
  /\ tokenUsage = 0

\* C5.  hardReset: at the step that completes handleHardReset the state is
\* Idle, the token is the sentinel, the microphone, the processor, the
\* channel and both audio contexts are released, the active set is empty and
\* the cursor, the accumulators, the transcript, the committed turns, the
\* report, the error and the token estimate are cleared.
HardResetReleasesAll ==
  [][(HardResetStep /\ resetPc' = "idle") => AllReleased']_vars

\* What stopAllMedia leaves behind when it returns.
MediaStopped ==
  /\ streamRef = 0
  /\ processorRef = 0
  /\ activeSessionRef = 0
  /\ audioContextRef = 0 \/ inCtx[audioContextRef] = "off"
  /\ outputAudioContextRef = 0 \/ outCtx[outputAudioContextRef] = "off"
  /\ sources = {}

\* C6.  startSession ordering and reset: the call sets the token to the
\* sentinel at once; its stopAllMedia has returned, everything released, when
\* the cooldown begins; the token is minted only by the step that ends the
\* cooldown, and in that step it becomes current (a missing API key ends the
\* call in the same step, the token back at the sentinel), the cursor is 0,
\* both accumulators and the transcript are empty and no channel is open
\* yet; the channel is opened by a later step of the call.
StartOrdering ==
  [][\A a \in Attempts :
       /\ StartClick(a, TRUE) => currentSessionId' = 0 /\ tok'[a] = 0
       /\ (startPc[a] # "cooldown" /\ startPc'[a] = "cooldown") => MediaStopped'
       /\ tok'[a] # tok[a] =>
            /\ startPc[a] = "cooldown"
            /\ currentSessionId' = (IF apiKey THEN tok'[a] ELSE 0)
            /\ nextStartTime' = 0
            /\ currentInput' = "" /\ currentOutput' = "" /\ fullTranscript' = ""
            /\ chan[a] = "off" /\ chan'[a] = "off"
       /\ (chan[a] = "off" /\ chan'[a] = "connecting") =>
            tok[a] # 0 /\ startPc[a] = "mic"]_vars

\* A report with a score, a summary, both lists and the five sub-metrics.
WellFormed(r) ==
  /\ r.kind = "report"
  /\ r.score.k = "number"
  /\ r.summary.k # "undefined"
  /\ r.strengths.k = "array"
  /\ r.improvements.k = "array"
  /\ DOMAIN r.metrics = {"technical", "communication", "confidence", "clarity",
                         "problemSolving"}
  /\ \A n \in DOMAIN r.metrics : r.metrics[n].k # "undefined"

\* A step of handleEndInterview.
EndStep ==
  \/ EndClick
  \/ \E e \in Ends : EndStopResume(e)
  \/ \E e \in Ends : EndShortTimer(e)
  \/ \E e \in Ends, p \in Responses : EndRemoteDone(e, p)
  \/ \E e \in Ends : EndRemoteFailed(e)

\* The step in which the analysis returns.
AnalysisReturns ==
  \/ \E e \in Ends : EndShortTimer(e)
  \/ \E e \in Ends, p \in Responses : EndRemoteDone(e, p)
  \/ \E e \in Ends : EndRemoteFailed(e)

\* A click that resets the view to Idle.
ViewReset ==
  HardResetStep \/ LogoClick \/ StartNewSessionClick \/ ReportResetClick

\* C7.  Report always returns: the report shown is well formed whatever the
\* analysis came to; no step of handleEndInterview moves the state to Error
\* or sets the error message; while the state is Analyzing the analysis is
\* under way (its timer or its remote call is pending); only its return or a
\* reset takes the state out of Analyzing, and its return, Analyzing still
\* shown, moves the state to Feedback with the report.
ReportAlwaysReturns ==
  /\ [](feedback.kind # "null" => WellFormed(feedback))
  /\ [](state = "FEEDBACK" => WellFormed(feedback))
  /\ [](state = "ANALYZING" => \E e \in Ends : endPc[e] \in {"short", "remote"})
  /\ [][/\ EndStep => (state' = "ERROR" => state = "ERROR") /\ error' = error
        /\ (state = "ANALYZING" /\ state' # "ANALYZING") =>
              AnalysisReturns \/ ViewReset
        /\ (state = "ANALYZING" /\ AnalysisReturns) =>
              state' = "FEEDBACK" /\ WellFormed(feedback')]_vars

\* No handler is suspended and no channel event is on its way: nothing more
\* happens until the user or the environment acts.
Quiescent ==
  /\ \A a \in Attempts :
       /\ startPc[a] \in {"idle", "done"}
       /\ stopPc[a] = "off"
       /\ chan[a] \in {"off", "open"}
  /\ \A e \in Ends : endPc[e] = "idle"
  /\ resetPc = "idle"
  /\ decodes = <<>>

\* The microphone stream, the capture processor, the channel and both audio
\* contexts of every startInterview call are released.
ResourcesReleased ==
  /\ streamRef = 0
  /\ processorRef = 0
  /\ activeSessionRef = 0
  /\ \A a \in Attempts :
       /\ mic[a] = "off"
       /\ chan[a] = "off"
       /\ inCtx[a] = "off"
       /\ outCtx[a] = "off"

\* C11.  No fatal path leaves resources open: once the state is Error and
\* every handler and teardown under way has run to its end, the microphone
\* stream, the capture processor, the channel and both audio contexts are
\* released.
ErrorReleasesAll == (state = "ERROR" /\ Quiescent) => ResourcesReleased

\* The messages a channel error or a close by the server leaves in `error`.
ChannelErrors ==
  {"Session closed unexpectedly by server.",
   "Connection interrupted due to network instability. Please check your internet.",
   "Session expired or permission denied. Please reset and try again.",
   "Connection was interrupted."}

\* The transcript accumulator, the committed turns and both partial
\* accumulators.
collected == <<fullTranscript, transcripts, currentInput, currentOutput>>

\* The step in which handleEndInterview hands its transcript to the analyzer.
AnalysisCalled == \E e \in Ends : endPc[e] # "remote" /\ endPc'[e] = "remote"

CloseIsErrorIffUnrequested ==
  [][\A a \in Attempts :
       OnClose(a) =>
         /\ IF currentSessionId = tok[a]
            THEN /\ state' = "ERROR"
                 /\ error' = "Session closed unexpectedly by server."
            ELSE UNCHANGED <<state, error>>
         /\ chan[a] \in {"closing", "failing"} => UNCHANGED <<state, error>>]_vars

MicDeniedMessage == "Microphone access denied. Please allow permissions."

\* C14.  When getUserMedia is refused, the step that handles the refusal
\* leaves the state Error and the microphone-denied message, the call is
\* over, and no channel is opened for that call, then or later.
MicDeniedFailsFast ==
  [][\A a \in Attempts :
       /\ StartMicDenied(a) =>
            /\ state' = "ERROR"
            /\ error' = MicDeniedMessage
            /\ startPc'[a] = "done"
            /\ chan[a] = "off" /\ chan'[a] = "off"
       /\ (startPc[a] = "done" /\ chan[a] = "off") => chan'[a] = "off"]_vars

\* The first call was refused the microphone: Error, the message, no channel.
MicDeniedSeen ==
  /\ state = "ERROR"
  /\ error = MicDeniedMessage
  /\ faults = 1
  /\ startPc[1] = "done"
  /\ tok[1] # 0
  /\ chan[1] = "off"
  /\ mic[1] = "off"

\* C15 as stated: no step of a session lowers the cursor.
CursorNeverLowered == [][nextStartTime' >= nextStartTime]_vars

\* C15.  Scheduling a buffer never lowers the cursor: it moves it to the
\* larger of the cursor and the clock, plus the buffer's duration.  Only an
\* interrupted event lowers it, to the clock of the output context, when
\* buffers were queued beyond that clock.
CursorLoweredByInterruptOnly ==
  [][/\ \A i \in 1..Len(decodes) :
          DecodeDone(i) => nextStartTime' >= nextStartTime + decodes[i].dur
     /\ nextStartTime' < nextStartTime =>
          /\ \E m \in PlayMsgs : InterruptAllStep(m)
          /\ nextStartTime' = outClock[1]
          /\ nextStartTime > outClock[1]]_vars

\* After an interruption at clock 0.5 a buffer of 1.0 s was scheduled: it
\* starts at the clock and the cursor is its end.
ScheduledAfterInterrupt ==
  /\ completions = 1
  /\ outClock[1] = 1
  /\ timeline = <<[start |-> 1, dur |-> 2, clock |-> 1, seq |-> 2]>>
  /\ nextStartTime = 3

\* C16.  Buffers are placed on the timeline in the order their messages
\* arrived: of two chunks that were both scheduled since the cursor was last
\* reset, the one that arrived first starts first.
ArrivalOrderKept ==
  \A i, j \in 1..Len(timeline) :
    timeline[i].seq < timeline[j].seq => timeline[i].start < timeline[j].start

\* C17.  The failure of one chunk's decode leaves the cursor, the active set,
\* the lifecycle state, the error message, the transcript, the committed
\* turns and both accumulators unchanged, as well as what later chunks need to
\* be scheduled: the token, the output context and the decodes under way.
DecodeFailureSkipped ==
  [][\A i \in 1..Len(decodes) :
       DecodeFail(i) =>
         /\ UNCHANGED <<nextStartTime, sources, timeline, state, error,
                        fullTranscript, transcripts, currentInput, currentOutput>>
         /\ UNCHANGED <<currentSessionId, outputAudioContextRef, outCtx, chan>>
         /\ decodes' = RemoveAt(decodes, i)]_vars

\* The first chunk of the session failed to decode and the second, which
\* arrived after it, is on the timeline.
LaterChunkScheduled ==
  /\ faults = 1
  /\ msgs = 2
  /\ decodes = <<>>
  /\ state = "ACTIVE"
  /\ timeline = <<[start |-> 0, dur |-> 1, clock |-> 0, seq |-> 2]>>
  /\ nextStartTime = 1


\* ---------------------------------------------------------------------- C18
\* The report on screen was built from the text the endpoint answered to
\* call e, which parsed.
ReportFromPayload(e) ==
  state = "FEEDBACK" /\ jsonText[e] # "" /\ SanitizeAndParse(jsonText[e]).ok

PayloadField(e, name) == Get(SanitizeAndParse(jsonText[e]).v, name)

\* x === y for two values that are not objects or arrays
SameValue(x, y) == x.k = y.k /\ x.v = y.v

ScoreDefaulted(e) ==
  SameValue(feedback.score,
            IF PayloadField(e, "score").k = "number" THEN PayloadField(e, "score")
            ELSE Num(0))

ListDefaulted(e, name) ==
  IF PayloadField(e, name).k = "array" THEN feedback[name] = PayloadField(e, name)
  ELSE feedback[name].k = "array" /\ Len(feedback[name].v) = 1

MetricsDefaulted(e) ==
  \A n \in MetricNames :
    SameValue(feedback.metrics[n],
              IF Get(PayloadField(e, "metrics"), n).k = "number"
              THEN Get(PayloadField(e, "metrics"), n) ELSE Num(0))

SummaryCarried(e) ==
  PayloadField(e, "summary").k = "string" =>
    SameValue(feedback.summary, PayloadField(e, "summary"))

\* C18: in the report of a text that parsed, the score is the payload's if
\* that is a number and 0 otherwise, each list is the payload's if that is a
\* list and a one-item list otherwise, and each sub-metric is the payload's
\* if that is a number and 0 otherwise.
FieldsDefaultedByType ==
  \A e \in Ends :
    ReportFromPayload(e) =>
      /\ ScoreDefaulted(e)
      /\ ListDefaulted(e, "strengths")
      /\ ListDefaulted(e, "improvements")
      /\ MetricsDefaulted(e)


\* ---------------------------------------------------------------------- C19
\* The text without its fences, and its slice from the first '{' to the
\* last '}'.
Unfenced(text) == RemoveAll(RemoveAll(text, Fence \o "json"), Fence)

Braced(text) ==
  /\ \E i \in 1..Len(text) : Ch(text, i) = "{"
  /\ \E i \in 1..Len(text) : Ch(text, i) = "}"

Core(text) ==
  Slice(Unfenced(text), IndexOf(Unfenced(text), "{"), LastIndexOf(Unfenced(text), "}"))

\* The commas of s with nothing but white space between them and a '}' or
\* a ']'.
TrailingCommas(s) ==
  { j \in 1..Len(s) :
      /\ Ch(s, j) = ","
      /\ \E k \in (j + 1)..Len(s) :
            /\ Ch(s, k) \in {"}", "]"}
            /\ \A h \in (j + 1)..(k - 1) : Ch(s, h) \in WhiteSpace }

\* s from lo to hi without the characters at the positions in drop.
RECURSIVE Without(_, _, _, _)
Without(s, drop, lo, hi) ==
  IF lo > hi THEN ""
  ELSE IF lo = hi THEN (IF lo \in drop THEN "" ELSE Ch(s, lo))
  ELSE Without(s, drop, lo, (lo + hi) \div 2)
         \o Without(s, drop, (lo + hi) \div 2 + 1, hi)

Repaired(s) == Without(s, TrailingCommas(s), 1, Len(s))

\* The report the recovery parse is to give for a text.
RecoveredReport(text) ==
  IF ~Braced(Unfenced(text)) THEN invalidFormatData
  ELSE IF JsonParse(Core(text)).ok THEN BuildReport(JsonParse(Core(text)).v)
  ELSE IF JsonParse(Repaired(Core(text))).ok
  THEN BuildReport(JsonParse(Repaired(Core(text))).v)
  ELSE invalidFormatData

ScenarioReport ==
  Report(Num(82), Str("Solid."), List(<<Str("Clear")>>), List(<<Str("Depth")>>),
         [n \in MetricNames |-> IF n = "technical" THEN Num(7) ELSE Num(0)])

\* C19: the report shown for a text of the endpoint is the one built from
\* the strict parse of its slice without fences, else from the parse of that
\* slice without its trailing commas, else the invalid-format report, which
\* is also the report of a text without braces; the fenced scenario text
\* gives score 82, 'Solid.', ['Clear'], ['Depth'], technical 7 and 0 for the
\* other sub-metrics.
RecoveryParse ==
  \A e \in Ends :
    (state = "FEEDBACK" /\ jsonText[e] # "") =>
      /\ feedback = RecoveredReport(jsonText[e])
      /\ jsonText[e] = ScenarioText => feedback = ScenarioReport

\* The scenario text was answered and its report is on screen.
ScenarioRecovered ==
  /\ state = "FEEDBACK"
  /\ \E e \in Ends : jsonText[e] = ScenarioText
  /\ feedback.score = Num(82)
  /\ feedback.improvements = List(<<Str("Depth")>>)
  /\ feedback.metrics["technical"] = Num(7)
  /\ feedback.metrics["clarity"] = Num(0)


\* ---------------------------------------------------------------------- C20
\* handleEndInterview passes `await stopAllMedia()` and decides what to do
\* with the final transcript.
TranscriptJudged(e) ==
  endPc[e] \in {"idle", "stopIn", "stopOut"} /\ endPc'[e] \in {"short", "remote"}

ShortTimerFires(e) == endPc[e] = "short" /\ endPc'[e] = "idle"

NoConversationReport(report) ==
  /\ report = emptyData
  /\ report.score = Num(0)
  /\ \A n \in MetricNames : report.metrics[n] = Num(0)

\* C20: a final transcript of fewer than 10 characters starts the timer and
\* never the remote call; when the timer fires, the no-conversation report
\* (score 0, every sub-metric 0) is shown if the state is ANALYZING, and
\* nothing changes on screen otherwise.
ShortTranscriptSkipsAnalysis ==
  [][\A e \in Ends :
       /\ TranscriptJudged(e) =>
            (endPc'[e] = "short" <=> Len(finalTranscript') < MinTranscript)
       /\ endPc[e] = "short" =>
            /\ endPc'[e] \in {"short", "idle"}
            /\ jsonText'[e] = jsonText[e]
       /\ ShortTimerFires(e) =>
            IF state = "ANALYZING"
            THEN state' = "FEEDBACK" /\ NoConversationReport(feedback')
            ELSE UNCHANGED <<state, feedback>>]_vars

\* The timer of a short transcript fired and its report is on screen.
NoConversationShown ==
  /\ state = "FEEDBACK"
  /\ \A e \in Ends : endPc[e] = "idle" /\ jsonText[e] = ""
  /\ Len(finalTranscript) < MinTranscript
  /\ feedback = emptyData


\* ---------------------------------------------------------------------- C21
\* C21: the report on screen has a score from 0 to 100, and each of its
\* sub-metrics that is a number is from 0 to 10.
ReportInRange ==
  state = "FEEDBACK" =>
    /\ feedback.score.k = "number"
    /\ feedback.score.v \in 0..100
    /\ \A n \in MetricNames :
         feedback.metrics[n].k = "number" => feedback.metrics[n].v \in 0..10


\* ---------------------------------------------------------------------- C22
\* A step sets the report.
ReportSet == feedback' # feedback /\ feedback'.kind = "report"

ReportDeliveredBy(e) ==
  /\ endPc[e] \in {"short", "remote"}
  /\ endPc'[e] = "idle"
  /\ state = "ANALYZING"
  /\ state' = "FEEDBACK"

\* C30: a call of handleEndInterview whose report is set ends the session
\* whose end set the state ANALYZING.
ReportOfOwnSession ==
  [][\A e \in Ends : ReportDeliveredBy(e) => endOf[e] = analysed]_vars


\* ---------------------------------------------------------------------- C23
\* C23: the token a startInterview call mints is not the 'none' token and is
\* not the token of any other call.
TokensUnique ==
  [][\A a \in Attempts :
       tok'[a] # tok[a] =>
         /\ tok'[a] # 0
         /\ \A b \in Attempts \ {a} : tok[b] # tok'[a]]_vars


\* C24: a capture block of a context whose rate is at most the wire rate is
\* handed on unchanged: same length, same samples in the same order.
PassedThrough ==
  /\ Len(finalData) = Len(inputData)
  /\ \A i \in 1..Len(inputData) : finalData[i] = inputData[i]

NativeRatePassThrough == sampleRate <= targetSampleRate => PassedThrough

\* A full block captured at a rate below the wire rate.
SlowBlockCaptured ==
  /\ sampleRate < targetSampleRate
  /\ Len(inputData) = MaxBlock
  /\ inputData[1] # inputData[2]


\* C25 (as stated): a refused camera moves the session to the Error state.
CameraRefusalFatal ==
  [][\A a \in Attempts :
       cam[a] = "asking" /\ cam'[a] = "denied" => state' = "ERROR"]_vars

\* C25 (amended): a refused camera is logged and nothing else: the lifecycle
\* state, the error message, the session token and the session's microphone,
\* contexts and channel are as they were.
CameraRefusalLogged ==
  [][\A a \in Attempts :
       cam[a] = "asking" /\ cam'[a] = "denied" =>
         /\ state' = state
         /\ error' = error
         /\ currentSessionId' = currentSessionId
         /\ mic' = mic /\ inCtx' = inCtx /\ outCtx' = outCtx /\ chan' = chan
         /\ streamRef' = streamRef /\ activeSessionRef' = activeSessionRef]_vars

\* A session is live although its camera was refused.
LiveWithoutCamera ==
  \E a \in Attempts :
    /\ cam[a] = "denied"
    /\ enableGestures
    /\ state = "ACTIVE"
    /\ currentSessionId = tok[a]
    /\ activeSessionRef = a
    /\ ~showCountdown


\* The object a stored item reads as.
StoredObject == ParsedItem[storage.text].v

PersistentKeys == {"type", "persona", "context", "enableGestures"}

\* C26: whatever the form's edits, resume uploads, renders and reloads, the
\* stored item is an object of role, persona, context and gesture toggle
\* without the resume text, each write stores those four fields of the
\* configuration rendered, and the configuration a load produces has an
\* empty resume text.
ResumeNeverPersisted ==
  /\ [](storage.present =>
          /\ ParsedItem[storage.text].ok
          /\ StoredObject.k = "object"
          /\ DOMAIN StoredObject.v = PersistentKeys
          /\ StoredObject.v.type.v \in Roles
          /\ StoredObject.v.persona.v \in Personas
          /\ StoredObject.v.context.v \in Contexts
          /\ StoredObject.v.enableGestures.k = "boolean")
  /\ [](\A i \in 1..Len(updates) :
          updates[i].op = "load" =>
            \A prev \in Configs :
              ApplyUpdate(prev, updates[i]).resumeText = Str(""))
  /\ [][storage' # storage =>
          \A n \in PersistentKeys : Get(StoredObject', n) = config'[n]]_vars

\* A resume was uploaded into an edited configuration and rendered, and the
\* stored item is that configuration's without the resume.
ResumeHeldNotStored ==
  /\ mounted
  /\ updates = <<>>
  /\ config.resumeText = Str(TypedResume)
  /\ config.context = Str("Backend role")
  /\ config.enableGestures = Bool(TRUE)
  /\ storage = Item(JsonStringify(PersistentConfig(config)))


\* C27: the completion of a decode whose chunk was received under a token
\* that is not current any more leaves the cursor and the set of active
\* buffers as they were.
DecodeCompletes(i) ==
  /\ i \in 1..Len(decodes)
  /\ decodes' = RemoveAt(decodes, i)

StaleDecodeDiscarded ==
  [][\A i \in 1..MaxPending :
       DecodeCompletes(i) /\ decodes[i].tok # currentSessionId =>
         nextStartTime' = nextStartTime /\ sources' = sources]_vars


\* C28: a step of a stopAllMedia() call that was not awaited, resumed after
\* a session was minted since the call began (the call cleared the token),
\* leaves that session's contexts open and referenced, its channel handle in
\* place and its playing sources playing.
BackgroundTeardownResumes(a) ==
  /\ stopPc[a] \in {"stopIn", "stopOut"}
  /\ stopPc'[a] # stopPc[a]

NewSession(b) == currentSessionId # 0 /\ tok[b] = currentSessionId

ResourcesKept(b) ==
  /\ inCtx'[b] = inCtx[b]
  /\ outCtx'[b] = outCtx[b]
  /\ chan'[b] = chan[b]
  /\ audioContextRef = b => audioContextRef' = b
  /\ outputAudioContextRef = b => outputAudioContextRef' = b
  /\ activeSessionRef = b => activeSessionRef' = b
  /\ \A n \in sources : n.ctx = b => n \in sources'

StaleTeardownSparesNewSession ==
  [][\A a \in Attempts, b \in Attempts :
       a # b /\ BackgroundTeardownResumes(a) /\ NewSession(b)
         /\ tok[a] # tok[b] =>
         ResourcesKept(b)]_vars


\* C29: when handleHardReset ran while a startInterview call was suspended,
\* and both have finished with no other call made and no teardown under way,
\* the state is IDLE, no token is current and the call holds no microphone
\* stream, audio context, processor or channel.
BothFinished(a) ==
  /\ a \in resetDuring
  /\ startPc[a] = "done"
  /\ resetPc = "idle"
  /\ \A b \in Attempts \ {a} : startPc[b] = "idle"
  /\ \A b \in Attempts : stopPc[b] = "off"
  /\ \A e \in Ends : endPc[e] = "idle"

HoldsNothing(a) ==
  /\ mic[a] = "off"
  /\ inCtx[a] = "off"
  /\ outCtx[a] = "off"
  /\ chan[a] = "off"
  /\ streamRef # a
  /\ processorRef # a
  /\ activeSessionRef # a

ResetEndsSuspendedStart ==
  \A a \in Attempts :
    BothFinished(a) =>
      state = "IDLE" /\ currentSessionId = 0 /\ HoldsNothing(a)


\* C31: a chunk of the current session that was in decodeAudioData when an
\* interrupted event was handled is not scheduled when its decode completes:
\* no source is added and the cursor stays.
CutChunkNotScheduled ==
  [][\A i \in 1..MaxPending :
       DecodeCompletes(i) /\ decodes[i].cut
         /\ decodes[i].tok = currentSessionId =>
           sources' = sources /\ nextStartTime' = nextStartTime]_vars


\* C32: at any instant at most one microphone stream is live, at most one
\* input and one output context are open and at most one channel is
\* connecting or open; and each of them, once the call that opened it has
\* stored it, is what the controller's reference holds.
OpenMics == { a \in Attempts : mic[a] = "live" }
OpenInputs == { a \in Attempts : inCtx[a] = "running" }
OpenOutputs == { a \in Attempts : outCtx[a] = "running" }
OpenChannels == { a \in Attempts : chan[a] \in {"connecting", "open"} }

AtMostOne(S) == \A a \in S, b \in S : a = b

SinglyOwned ==
  /\ AtMostOne(OpenMics)
  /\ AtMostOne(OpenInputs)
  /\ AtMostOne(OpenOutputs)
  /\ AtMostOne(OpenChannels)
  /\ \A a \in Attempts :
       /\ mic[a] = "live" /\ startPc[a] \in {"connecting", "done"}
            => streamRef = a
       /\ inCtx[a] = "running" /\ startPc[a] \in {"mic", "connecting", "done"}
            => audioContextRef = a
       /\ outCtx[a] = "running" /\ startPc[a] \in {"mic", "connecting", "done"}
            => outputAudioContextRef = a
       /\ chan[a] = "open" /\ startPc[a] = "done" => activeSessionRef = a


\* C33: whenever a session token is current the lifecycle state is
\* CONNECTING or ACTIVE.
TokenOnlyWhileLive ==
  currentSessionId # 0 => state \in {"CONNECTING", "ACTIVE"}

\* C34: a channel whose connect completes after the token of its session
\* stopped being current is closed in that step, does not become
\* activeSessionRef, and is sent no frame, then or later.
LateConnect(a) ==
  /\ a \in lapsed
  /\ startPc[a] = "connecting"
  /\ chan[a] = "open"
  /\ startPc'[a] = "done"

Shut(a) == startPc[a] = "done" /\ chan[a] # "open"

LateConnectShut ==
  [][\A a \in Attempts :
       /\ LateConnect(a) =>
            chan'[a] # "open" /\ activeSessionRef' # a /\ sent'[a] = sent[a]
       /\ Shut(a) =>
            chan'[a] # "open" /\ sent'[a] = sent[a]
            /\ (activeSessionRef' = a => activeSessionRef = a)]_vars

\* C35: a frame goes out on the channel of attempt a only while that
\* channel is open, with the token of a current, captured under the token
\* of a (frames wait only under it), and never once the session of a was
\* superseded or ended.
FrameSent(a) == sent'[a] > sent[a]

FramesOnlyToLiveSession ==
  [][\A a \in Attempts :
       /\ FrameSent(a) =>
            chan[a] = "open" /\ currentSessionId = tok[a] /\ a \notin lapsed
       /\ queued'[a] > queued[a] =>
            chan[a] = "open" /\ currentSessionId = tok[a] /\ a \notin lapsed]_vars

\* C36: one message commits at most one turn (a user entry and a model
\* entry), also when it carries turnComplete and interrupted together, and
\* no committed turn has an empty candidate text and an empty model text.
NewEntries == (Len(transcripts) + 1)..Len(transcripts')

BlankTurn(user, model) ==
  user.text = "" /\ model.text \in {"", InterruptMarker}

AtMostOneTurnPerMessage ==
  [][/\ Len(transcripts') <= Len(transcripts) + 2
     /\ \A k \in NewEntries :
          transcripts'[k].role = "user" =>
            /\ k + 1 \in NewEntries
            /\ transcripts'[k + 1].role = "model"
            /\ ~BlankTurn(transcripts'[k], transcripts'[k + 1])]_vars

\* The first message carried text and both flags: its turn is committed by
\* the turn-complete branch (no marker) and the interruption was handled
\* (the sources are stopped).
BothFlagsCommittedOnce ==
  /\ msgs = 1
  /\ completions = 1
  /\ sources = {}
  /\ Len(transcripts) = 2
  /\ transcripts[1].text = TurnText(1)
  /\ transcripts[2].text = TurnText(1)

\* C37: the transcript a handleEndInterview call builds is fullTranscript as
\* it stood when the call was made, then the "Candidate (Final)" line if
\* currentInput is not empty, then the "Interviewer (Final)" line if
\* currentOutput is not empty: the call builds it from the three as it
\* finds them after `await stopAllMedia()`, and no step changes any of them
\* while a call is inside that await.
EndInStop(e) == endPc[e] \in {"stopIn", "stopOut"}

EndBuilds(e) ==
  /\ endPc[e] \in {"idle", "stopIn", "stopOut"}
  /\ endPc'[e] \in {"short", "remote"} \/ (endPc[e] # "idle" /\ endPc'[e] = "idle")

FinalTranscriptAsAtEnd ==
  [][\A e \in Ends :
       /\ EndBuilds(e) => finalTranscript' = FinalTranscript(World)
       /\ EndInStop(e) => /\ fullTranscript' = fullTranscript
                          /\ currentInput' = currentInput
                          /\ currentOutput' = currentOutput]_vars

\* C38: a handleEndInterview call takes the short path (no remote call)
\* exactly when it finds no committed turn and both partial texts empty;
\* with a committed turn or a non-empty partial text the transcript it
\* builds has at least MinTranscript characters.
NothingSaid == Len(transcripts) = 0 /\ currentInput = "" /\ currentOutput = ""

ShortPathIffNothingSaid ==
  [][\A e \in Ends :
       EndBuilds(e) =>
         /\ endPc'[e] = "short" <=> NothingSaid
         /\ ~NothingSaid => Len(finalTranscript') >= MinTranscript]_vars

\* A call went on to the remote analysis with no committed turn and one
\* character of partial output.
PartialAloneAnalysed ==
  \E e \in Ends :
    /\ endPc[e] = "remote"
    /\ Len(transcripts) = 0
    /\ finalTranscript = "\nInterviewer (Final): b"

\* C39: at a native rate above the wire rate a block of N samples is handed
\* on as floor(N / r) samples, r = native rate / wire rate; sample i (from
\* 0) is the captured sample of index floor(i * r); that index is within
\* 0..N-1, and the indices grow strictly with i.
\* k = floor(i * r): k <= i * r < k + 1, without the division.
IsFloorOfProduct(k, i) ==
  /\ k * targetSampleRate <= i * sampleRate
  /\ i * sampleRate < (k + 1) * targetSampleRate

\* m = floor(n / r)
IsFloorOfQuotient(m, n) ==
  /\ m * sampleRate <= n * targetSampleRate
  /\ n * targetSampleRate < (m + 1) * sampleRate

DecimatedByTruncation ==
  sampleRate > targetSampleRate =>
    LET N == Len(inputData)
        M == Len(finalData)
    IN  /\ IsFloorOfQuotient(M, N)
        /\ \A i \in 0..(M - 1) :
             \E k \in 0..(N - 1) :
               IsFloorOfProduct(k, i) /\ finalData[i + 1] = inputData[k + 1]
        /\ \A i, j \in 0..(M - 1), k, l \in 0..(N - 1) :
             i < j /\ IsFloorOfProduct(k, i) /\ IsFloorOfProduct(l, j) => k < l

\* A full block captured at 24 kHz (r = 1.5): two samples are handed on,
\* those of index 0 and 1, and they differ; rounding i * r would have read
\* index 2.
BlockDecimated ==
  /\ sampleRate = 24000
  /\ Len(inputData) = MaxBlock
  /\ Len(finalData) >= 2
  /\ finalData[2] = inputData[2]
  /\ inputData[2] # inputData[3]

====
